---- MODULE Spec2Model ----
(***************************************************************************)
(* Workspace synchronisation layer of the markdown editor: the store       *)
(* reached through File System Access handles (types.ts), the entry        *)
(* operations of services/fileSystem (moveEntry, renameEntry,              *)
(* copyDirectory, saveFile) and the App handlers that keep the open        *)
(* documents in step with the store (handleSave, executeRename,            *)
(* confirmRename, handleContentChange and its two timers).                 *)
(*                                                                         *)
(* Every await of the source is one step of a task, so that operations in  *)
(* flight interleave exactly where the single-threaded scheduler lets      *)
(* them.  Time is abstracted: an armed timer may fire at any later step,   *)
(* and a storage call may take arbitrarily long.                           *)
(***************************************************************************)
EXTENDS Integers, Sequences, FiniteSets, TLC

(***************************************************************************)
(* Names, paths, contents.  A path string "d/a.md" is the sequence of its  *)
(* segments; the absent path (undefined, or the falsy "") is <<>>.         *)
(***************************************************************************)
TRASH_DIR_NAME == ".trash"
Names == {"a.md", "b.md", "d", TRASH_DIR_NAME}
NoName == ""
NoPath == <<>>
RootPath == <<>>

EmptyContent == [h1 |-> "", body |-> 0]
Text(h, n) == [h1 |-> h, body |-> n]

FileEntry(c) == [kind |-> "file", data |-> c]
DirEntry == [kind |-> "directory", data |-> EmptyContent]

IsPrefix(p, q) == Len(p) <= Len(q) /\ SubSeq(q, 1, Len(p)) = p
Parent(p) == SubSeq(p, 1, Len(p) - 1)
Last(p) == p[Len(p)]

\* name.split('.') and its inverse, over the names of the model.
AllNames == {"a.md", "b.md", "c.md", "d", TRASH_DIR_NAME, "Untitled-1.md", "Untitled-2.md",
             "Readme.md"}
NameParts(n) ==
    CASE n = "a.md" -> <<"a", "md">>
      [] n = "b.md" -> <<"b", "md">>
      [] n = "c.md" -> <<"c", "md">>
      [] n = "d" -> <<"d">>
      [] n = TRASH_DIR_NAME -> <<"", "trash">>
      [] n = "Readme.md" -> <<"Readme", "md">>
      [] n = "Untitled-1.md" -> <<"Untitled-1", "md">>
      [] n = "Untitled-2.md" -> <<"Untitled-2", "md">>
      [] OTHER -> <<n>>
HasName(parts) == \E n \in AllNames : NameParts(n) = parts
JoinName(parts) == CHOOSE n \in AllNames : NameParts(n) = parts
\* name.startsWith('.')
Hidden(n) == NameParts(n)[1] = "" /\ Len(NameParts(n)) > 1
\* isImageFile (678): the extension is one of png, jpg, jpeg, gif, webp, svg.
isImageFile(n) ==
    Len(NameParts(n)) > 1 /\ Last(NameParts(n)) \in {"png", "jpg", "jpeg", "gif", "webp", "svg"}
\* a.localeCompare(b) < 0, over the names of the model.
NameOrder ==
    <<TRASH_DIR_NAME, "a.md", "b.md", "c.md", "d", "Readme.md", "Untitled-1.md", "Untitled-2.md">>
Rank(n) == CHOOSE i \in 1..Len(NameOrder) : NameOrder[i] = n

(***************************************************************************)
(* The store: a function from the paths that exist to their entries.  The  *)
(* root directory always exists and is no element of the domain.           *)
(***************************************************************************)
Exists(s, p) == p \in DOMAIN s
IsFile(s, p) == p \in DOMAIN s /\ s[p].kind = "file"
IsDir(s, p) == p = RootPath \/ (p \in DOMAIN s /\ s[p].kind = "directory")
Put(s, p, e) == [q \in (DOMAIN s) \cup {p} |-> IF q = p THEN e ELSE s[q]]
RemoveTree(s, p) == [q \in {r \in DOMAIN s : ~IsPrefix(p, r)} |-> s[q]]
ChildNames(s, d) == {Last(q) : q \in {r \in DOMAIN s : Len(r) = Len(d) + 1 /\ IsPrefix(d, r)}}
Dirs(s) == {RootPath} \cup {p \in DOMAIN s : s[p].kind = "directory"}
\* The subtree below p, keyed by the path relative to p.
Subtree(s, p) ==
    [r \in {SubSeq(q, Len(p) + 1, Len(q)) : q \in {x \in DOMAIN s : IsPrefix(p, x) /\ x # p}}
        |-> s[p \o r]]

(***************************************************************************)
(* Host primitives (FileSystemDirectoryHandle / FileSystemFileHandle).     *)
(* Each yields [ok, fs]: ok = FALSE is a rejected promise (NotFoundError,  *)
(* TypeMismatchError, InvalidModificationError), which leaves the store    *)
(* as it was.                                                              *)
(***************************************************************************)
Ok(s) == [ok |-> TRUE, fs |-> s]
Rejected(s) == [ok |-> FALSE, fs |-> s]

getFileHandle(s, dir, name, create) ==
    LET p == Append(dir, name) IN
    IF ~IsDir(s, dir) THEN Rejected(s)
    ELSE IF IsFile(s, p) THEN Ok(s)
    ELSE IF Exists(s, p) THEN Rejected(s)
    ELSE IF create THEN Ok(Put(s, p, FileEntry(EmptyContent)))
    ELSE Rejected(s)

getDirectoryHandle(s, dir, name, create) ==
    LET p == Append(dir, name) IN
    IF ~IsDir(s, dir) THEN Rejected(s)
    ELSE IF IsDir(s, p) THEN Ok(s)
    ELSE IF Exists(s, p) THEN Rejected(s)
    ELSE IF create THEN Ok(Put(s, p, DirEntry))
    ELSE Rejected(s)

removeEntry(s, dir, name, recursive) ==
    LET p == Append(dir, name) IN
    IF ~IsDir(s, dir) \/ ~Exists(s, p) THEN Rejected(s)
    ELSE IF IsDir(s, p) /\ ChildNames(s, p) # {} /\ ~recursive THEN Rejected(s)
    ELSE Ok(RemoveTree(s, p))

\* getFile(): a File is a snapshot of the entry; reading it later fails once
\* the entry has changed or gone.
NoFile == [path |-> NoPath, data |-> EmptyContent]
getFile(s, p) == [path |-> p, data |-> s[p].data]
Readable(s, file) == IsFile(s, file.path) /\ s[file.path].data = file.data

\* close() of a writable commits its buffer.  When the entry has been removed
\* since createWritable the host either rejects or puts the file back.
closeWritable(s, p, buf) ==
    IF IsFile(s, p) THEN {Ok(Put(s, p, FileEntry(buf)))}
    ELSE IF Exists(s, p) \/ ~IsDir(s, Parent(p)) THEN {Rejected(s)}
    ELSE {Rejected(s), Ok(Put(s, p, FileEntry(buf)))}

\* handle.move(parent, newName), where the host has it: the entry and all below
\* it change place.  On an occupied target name the host either rejects or
\* replaces a file by a file.
MoveTree(s, p, q) ==
    LET kept == {r \in DOMAIN s : ~IsPrefix(p, r) /\ ~IsPrefix(q, r)}
        moved == {q \o SubSeq(r, Len(p) + 1, Len(r)) : r \in {x \in DOMAIN s : IsPrefix(p, x)}}
    IN [r \in kept \cup moved |->
            IF IsPrefix(q, r) THEN s[p \o SubSeq(r, Len(q) + 1, Len(r))] ELSE s[r]]

\* Mutant: a move that leaves the entry under its old name as well.
nativeMove_Copy(s, p, dir, newName) ==
    IF ~Exists(s, p) \/ ~IsDir(s, dir) \/ Exists(s, Append(dir, newName)) THEN {Rejected(s)}
    ELSE {Ok([r \in DOMAIN s \cup DOMAIN MoveTree(s, p, Append(dir, newName)) |->
                IF r \in DOMAIN s THEN s[r] ELSE MoveTree(s, p, Append(dir, newName))[r]])}

nativeMove(s, p, dir, newName) ==
    LET q == Append(dir, newName) IN
    IF ~Exists(s, p) \/ ~IsDir(s, dir) THEN {Rejected(s)}
    ELSE IF ~Exists(s, q) THEN {Ok(MoveTree(s, p, q))}
    ELSE IF IsFile(s, p) /\ IsFile(s, q) THEN {Rejected(s), Ok(MoveTree(s, p, q))}
    ELSE {Rejected(s)}

(***************************************************************************)
(* State.                                                                  *)
(***************************************************************************)
VARIABLES
    fs,          \* the store under the workspace root
    hasMove,     \* whether the host's handles have move() (renameEntry line 272)
    tasks,       \* the asynchronous calls in flight, each at its next await
    nextId,      \* calls started so far
    crash,       \* the last call the process was interrupted in
    rootDirHandle,       \* App state: the open root (TRUE) or undefined (FALSE)
    files,               \* App state: the open documents, in tab order
    activeFileId,        \* App state: id of the active document, or NoId
    projectFiles,        \* App state: the listing last fetched
    isRecycleBinActive,  \* App state: the recycle-bin view is shown
    autoSaveTimer,       \* the armed auto-save timeout, or NoTimer
    autoRenameTimer,     \* autoRenameTimerRef.current: the armed rename timeout, or NoTimer
    toast,               \* the message last shown
    docSeq,              \* documents created so far (uuidv4 is never reused)
    edits,               \* content changes made so far
    external,            \* changes made to the store by other programs so far
    localStorage,        \* the item under the workspace key of the root, or NoSession
    isRestoring,         \* App state: loadProject is restoring the workspace
    recentStore,         \* the folder has an item in the recent_folders store
    permission           \* the readwrite permission of the folder's handle

app == <<rootDirHandle, files, activeFileId, projectFiles, isRecycleBinActive,
         autoSaveTimer, autoRenameTimer, toast, docSeq, edits, external,
         localStorage, isRestoring, recentStore, permission>>
vars == <<fs, hasMove, tasks, nextId, crash, app>>

NoStore == [q \in {} |-> DirEntry]

(***************************************************************************)
(* Documents (EditorFile).  A handle is the locator of a file: the path it *)
(* was obtained at; undefined is NoHandle.                                 *)
(***************************************************************************)
NoHandle == <<>>
NoId == 0
NoTimer == [fileId |-> NoId, content |-> EmptyContent, newName |-> NoName,
            docName |-> NoName, docPath |-> NoPath, root |-> FALSE, recycle |-> FALSE]

NoCursor == [lineNumber |-> 0, column |-> 0]
Doc(id, name, path, handle, content, isDirty) ==
    [id |-> id, name |-> name, path |-> path, handle |-> handle,
     content |-> content, isDirty |-> isDirty, cursorPosition |-> NoCursor]
NoSession == [openFiles |-> <<>>, activeFilePath |-> NoPath, saved |-> FALSE]

Ids(fl) == {fl[i].id : i \in 1..Len(fl)}
Find(fl, id) == fl[CHOOSE i \in 1..Len(fl) : fl[i].id = id]
\* setFiles(prev => prev.map(f => f.id === id ? g(f) : f))
Update(f, upd) == [k \in DOMAIN f |-> IF k \in DOMAIN upd THEN upd[k] ELSE f[k]]
MapDoc(fl, id, upd) ==
    [i \in 1..Len(fl) |-> IF fl[i].id = id THEN Update(fl[i], upd) ELSE fl[i]]

\* The App before a folder is opened (lines 852-876).
NoWorkspace ==
    /\ rootDirHandle = FALSE
    /\ files = <<>>
    /\ activeFileId = NoId
    /\ projectFiles = <<>>
    /\ isRecycleBinActive = FALSE
    /\ autoSaveTimer = NoTimer
    /\ autoRenameTimer = NoTimer
    /\ toast = ""
    /\ docSeq = 0
    /\ edits = 0
    /\ external = 0
    /\ isRestoring = FALSE
    /\ recentStore = FALSE
    /\ permission = "granted"

\* A call in flight: the arguments and locals of the function and of those it
\* calls, the label of its next await (pc), where it returns to (ret) and where
\* a rejection is caught (onErr).  pre is the store at the call, alone whether
\* no other handler was in flight then, stamp the number of changes other
\* programs had made to the store by then.
BlankTask ==
    [id |-> 0, op |-> "", pc |-> "", ret |-> "", onErr |-> "",
     sourceDir |-> RootPath, name |-> NoName, targetDir |-> RootPath,
     kind |-> "file", newName |-> NoName,
     xsrc |-> RootPath, xname |-> NoName, xdst |-> RootPath, xtarget |-> NoName, xret |-> "",
     file |-> NoFile, buf |-> EmptyContent,
     frames |-> <<>>,
     fileId |-> 0, docName |-> NoName, docPath |-> NoPath, content |-> EmptyContent,
     handle |-> NoPath, parts |-> <<>>, dir |-> RootPath, found |-> NoPath,
     root |-> FALSE, recycle |-> FALSE, parentPath |-> RootPath, after |-> "",
     retry |-> FALSE, crashPc |-> "", pre |-> NoStore, orig |-> NoStore,
     docs |-> <<>>, active |-> 0, alone |-> FALSE, session |-> NoSession, queue |-> <<>>,
     stamp |-> 0]

NoCrash == [BlankTask EXCEPT !.op = "none"]

\* moveEntry line 229: newName || name.
TargetName(name, newName) == IF newName # NoName THEN newName ELSE name

Replace(t, u) == (tasks \ {t}) \cup {u}
Throw(t) == [t EXCEPT !.pc = t.onErr]

(***************************************************************************)
(* The copy of one file, as moveEntry (232-239) and copyDirectory          *)
(* (293-298) both do it: getFileHandle, getFile, getFileHandle(create),    *)
(* createWritable, write, close.                                           *)
(***************************************************************************)
BeginTransfer(t, src, name, dst, target, after) ==
    [t EXCEPT !.pc = "x_source", !.xsrc = src, !.xname = name, !.xdst = dst,
              !.xtarget = target, !.xret = after]

TransferGetSource(t) ==
    /\ t.pc = "x_source"
    /\ LET r == getFileHandle(fs, t.xsrc, t.xname, FALSE) IN
       tasks' = Replace(t, IF r.ok THEN [t EXCEPT !.pc = "x_getFile"] ELSE Throw(t))
    /\ UNCHANGED <<fs, hasMove, nextId, crash, app>>

TransferGetFile(t) ==
    /\ t.pc = "x_getFile"
    /\ LET p == Append(t.xsrc, t.xname) IN
       tasks' = Replace(t, IF IsFile(fs, p)
                           THEN [t EXCEPT !.pc = "x_target", !.file = getFile(fs, p)]
                           ELSE Throw(t))
    /\ UNCHANGED <<fs, hasMove, nextId, crash, app>>

\* Mutant: the target opened without { create: true } semantics for an
\* entry that is already there.
TransferGetTarget_Exclusive(t) ==
    /\ t.pc = "x_target"
    /\ LET r == getFileHandle(fs, t.xdst, t.xtarget, TRUE) IN
       /\ fs' = r.fs
       /\ tasks' = Replace(t, IF r.ok /\ ~Exists(fs, Append(t.xdst, t.xtarget))
                              THEN [t EXCEPT !.pc = "x_writable"] ELSE Throw(t))
    /\ UNCHANGED <<hasMove, nextId, crash, app>>

TransferGetTarget(t) ==
    /\ t.pc = "x_target"
    /\ LET r == getFileHandle(fs, t.xdst, t.xtarget, TRUE) IN
       /\ fs' = r.fs
       /\ tasks' = Replace(t, IF r.ok THEN [t EXCEPT !.pc = "x_writable"] ELSE Throw(t))
    /\ UNCHANGED <<hasMove, nextId, crash, app>>

TransferCreateWritable(t) ==
    /\ t.pc = "x_writable"
    /\ tasks' = Replace(t, IF IsFile(fs, Append(t.xdst, t.xtarget))
                           THEN [t EXCEPT !.pc = "x_write", !.buf = EmptyContent]
                           ELSE Throw(t))
    /\ UNCHANGED <<fs, hasMove, nextId, crash, app>>

TransferWrite(t) ==
    /\ t.pc = "x_write"
    /\ tasks' = Replace(t, IF Readable(fs, t.file)
                           THEN [t EXCEPT !.pc = "x_close", !.buf = t.file.data]
                           ELSE Throw(t))
    /\ UNCHANGED <<fs, hasMove, nextId, crash, app>>

TransferClose(t) ==
    /\ t.pc = "x_close"
    /\ \E r \in closeWritable(fs, Append(t.xdst, t.xtarget), t.buf) :
         /\ fs' = r.fs
         /\ tasks' = Replace(t, IF r.ok THEN [t EXCEPT !.pc = t.xret] ELSE Throw(t))
    /\ UNCHANGED <<hasMove, nextId, crash, app>>

(***************************************************************************)
(* fileSystem.moveEntry (222-251).  kind = 'file': the transfer, then      *)
(* removeEntry of the source.  Otherwise: both directory handles,          *)
(* copyDirectory, then the recursive removeEntry.                          *)
(***************************************************************************)
EnterMoveEntry(t) ==
    IF t.kind = "file"
    THEN BeginTransfer(t, t.sourceDir, t.name, t.targetDir,
                       TargetName(t.name, t.newName), "mv_remove")
    ELSE [t EXCEPT !.pc = "mvd_source"]

\* Mutant: the removal aimed at the copy instead of the source.
MoveRemoved_Target(t) == Append(t.targetDir, TargetName(t.name, t.newName))

\* Line 242: which entry the file branch removes once the copy is closed.
MoveRemoved(t) == Append(t.sourceDir, t.name)

MoveRemoveSource(t) ==
    /\ t.pc = "mv_remove"
    /\ LET r == removeEntry(fs, Parent(MoveRemoved(t)), Last(MoveRemoved(t)), FALSE) IN
       /\ fs' = r.fs
       /\ tasks' = Replace(t, IF r.ok THEN [t EXCEPT !.pc = t.ret] ELSE Throw(t))
    /\ UNCHANGED <<hasMove, nextId, crash, app>>

Frame(src, dst) == [src |-> src, dst |-> dst, seen |-> {}, cur |-> NoName]

\* The variant that opens the source directory with create.
MoveDirGetSource_Create(t) ==
    /\ t.pc = "mvd_source"
    /\ LET r == getDirectoryHandle(fs, t.sourceDir, t.name, TRUE) IN
       /\ fs' = r.fs
       /\ tasks' = Replace(t, IF r.ok THEN [t EXCEPT !.pc = "mvd_target"] ELSE Throw(t))
    /\ UNCHANGED <<hasMove, nextId, crash, app>>

MoveDirGetSource(t) ==
    /\ t.pc = "mvd_source"
    /\ LET r == getDirectoryHandle(fs, t.sourceDir, t.name, FALSE) IN
       tasks' = Replace(t, IF r.ok THEN [t EXCEPT !.pc = "mvd_target"] ELSE Throw(t))
    /\ UNCHANGED <<fs, hasMove, nextId, crash, app>>

\* Mutant: the directory branch without its copyDirectory.
MoveDirGetTarget_NoCopy(t) ==
    /\ t.pc = "mvd_target"
    /\ LET r == getDirectoryHandle(fs, t.targetDir, TargetName(t.name, t.newName), TRUE) IN
       /\ fs' = r.fs
       /\ tasks' = Replace(t, IF r.ok THEN [t EXCEPT !.pc = "mvd_remove"] ELSE Throw(t))
    /\ UNCHANGED <<hasMove, nextId, crash, app>>

MoveDirGetTarget(t) ==
    /\ t.pc = "mvd_target"
    /\ LET r == getDirectoryHandle(fs, t.targetDir, TargetName(t.name, t.newName), TRUE) IN
       /\ fs' = r.fs
       /\ tasks' = Replace(t,
            IF r.ok
            THEN [t EXCEPT !.pc = "cp_next",
                           !.frames = <<Frame(Append(t.sourceDir, t.name),
                                              Append(t.targetDir, TargetName(t.name, t.newName)))>>]
            ELSE Throw(t))
    /\ UNCHANGED <<hasMove, nextId, crash, app>>

\* Line 249, after copyDirectory has returned.
MoveDirRemoveSource(t) ==
    /\ t.pc = "mvd_remove"
    /\ LET r == removeEntry(fs, t.sourceDir, t.name, TRUE) IN
       /\ fs' = r.fs
       /\ tasks' = Replace(t, IF r.ok THEN [t EXCEPT !.pc = t.ret] ELSE Throw(t))
    /\ UNCHANGED <<hasMove, nextId, crash, app>>

(***************************************************************************)
(* fileSystem.copyDirectory (289-305): frames is the recursion, the last   *)
(* frame the innermost call; seen holds the entries source.values() has    *)
(* yielded, in whatever order the host enumerates.                         *)
(***************************************************************************)
Top(t) == t.frames[Len(t.frames)]
SetTop(t, f) == [t.frames EXCEPT ![Len(t.frames)] = f]
Pop(t) == SubSeq(t.frames, 1, Len(t.frames) - 1)

\* One turn of the for-await loop (291): the iterator rejects when the source
\* is gone, the call returns when it is exhausted, else the entry is copied
\* (a file) or descended into (a directory).
CopyNext(t) ==
    /\ t.pc = "cp_next"
    /\ LET rest == IF IsDir(fs, Top(t).src) THEN ChildNames(fs, Top(t).src) \ Top(t).seen ELSE {}
       IN \E e \in (IF rest = {} THEN {NoName} ELSE rest) :
            LET f == [Top(t) EXCEPT !.seen = @ \cup {e}, !.cur = e]
                u == [t EXCEPT !.frames = SetTop(t, f)]
            IN tasks' = Replace(t,
                 IF ~IsDir(fs, Top(t).src) THEN Throw(t)
                 ELSE IF rest = {}
                 THEN [t EXCEPT !.frames = Pop(t),
                                !.pc = IF Len(t.frames) = 1 THEN "mvd_remove" ELSE "cp_next"]
                 ELSE IF IsFile(fs, Append(f.src, e))
                 THEN BeginTransfer(u, f.src, e, f.dst, e, "cp_next")
                 ELSE [u EXCEPT !.pc = "cp_subSource"])
    /\ UNCHANGED <<fs, hasMove, nextId, crash, app>>

\* The variant that leaves the directories below the source out of the copy.
CopySubSource_Skip(t) ==
    /\ t.pc = "cp_subSource"
    /\ tasks' = Replace(t, [t EXCEPT !.pc = "cp_next"])
    /\ UNCHANGED <<fs, hasMove, nextId, crash, app>>

CopySubSource(t) ==
    /\ t.pc = "cp_subSource"
    /\ LET r == getDirectoryHandle(fs, Top(t).src, Top(t).cur, FALSE) IN
       tasks' = Replace(t, IF r.ok THEN [t EXCEPT !.pc = "cp_subTarget"] ELSE Throw(t))
    /\ UNCHANGED <<fs, hasMove, nextId, crash, app>>

\* The host refuses a directory nested deeper than MaxDepth below the target
\* of the copy (a path has a longest length).
MaxDepth == 3

CopySubTarget(t) ==
    /\ t.pc = "cp_subTarget"
    /\ LET r == IF Len(t.frames) < MaxDepth
                THEN getDirectoryHandle(fs, Top(t).dst, Top(t).cur, TRUE)
                ELSE Rejected(fs) IN
       /\ fs' = r.fs
       /\ tasks' = Replace(t,
            IF r.ok
            THEN [t EXCEPT !.pc = "cp_next",
                           !.frames = Append(t.frames, Frame(Append(Top(t).src, Top(t).cur),
                                                             Append(Top(t).dst, Top(t).cur)))]
            ELSE Throw(t))
    /\ UNCHANGED <<hasMove, nextId, crash, app>>

(***************************************************************************)
(* fileSystem.renameEntry (256-284): the handle of oldName; the host's     *)
(* move() where the handle has one, else moveEntry within the parent.      *)
(***************************************************************************)
RenameGetHandle(t) ==
    /\ t.pc = "rn_handle"
    /\ LET r == IF t.kind = "file" THEN getFileHandle(fs, t.sourceDir, t.name, FALSE)
                ELSE getDirectoryHandle(fs, t.sourceDir, t.name, FALSE) IN
       tasks' = Replace(t, IF ~r.ok THEN Throw(t)
                           ELSE IF hasMove THEN [t EXCEPT !.pc = "rn_move"]
                           ELSE EnterMoveEntry(t))
    /\ UNCHANGED <<fs, hasMove, nextId, crash, app>>

RenameNativeMove(t) ==
    /\ t.pc = "rn_move"
    /\ \E r \in nativeMove(fs, Append(t.sourceDir, t.name), t.sourceDir, t.newName) :
         /\ fs' = r.fs
         /\ tasks' = Replace(t, IF r.ok THEN [t EXCEPT !.pc = t.ret] ELSE Throw(t))
    /\ UNCHANGED <<hasMove, nextId, crash, app>>

(***************************************************************************)
(* The entry operations on their own: one call of moveEntry or             *)
(* renameEntry on a store drawn from InitStores, which the process may be  *)
(* interrupted in after any storage call and which is then invoked again   *)
(* with the same arguments.                                                *)
(***************************************************************************)
Universe ==
    [p \in {<<"a.md">>, <<"b.md">>, <<"d">>, <<"d", "a.md">>, <<"d", "d">>,
            <<TRASH_DIR_NAME>>, <<TRASH_DIR_NAME, "a.md">>} |->
        CASE p = <<"a.md">> -> FileEntry(Text("a", 1))
          [] p = <<"b.md">> -> FileEntry(Text("b", 2))
          [] p = <<"d", "a.md">> -> FileEntry(Text("a", 3))
          [] p = <<TRASH_DIR_NAME, "a.md">> -> FileEntry(Text("a", 4))
          [] OTHER -> DirEntry]

Closed(P) == \A p \in P : Len(p) > 1 => Parent(p) \in P
InitStores == {[p \in P |-> Universe[p]] : P \in {Q \in SUBSET DOMAIN Universe : Closed(Q)}}

NewNames == {NoName, "b.md", "d"}

\* The callers never aim an entry at itself (confirmRename 1501, executeRename
\* 1371, confirmDelete and handleRestoreFile move between the root and the
\* trash container) nor below itself.
Elsewhere(sourceDir, name, targetDir, newName) ==
    ~IsPrefix(Append(sourceDir, name), Append(targetDir, TargetName(name, newName)))

Call(op, sourceDir, name, targetDir, kind, newName) ==
    [BlankTask EXCEPT !.id = nextId + 1, !.op = op, !.ret = "returned", !.onErr = "threw",
                      !.sourceDir = sourceDir, !.name = name, !.targetDir = targetDir,
                      !.kind = kind, !.newName = newName, !.pre = fs, !.orig = fs]

Started(c) == IF c.op = "moveEntry" THEN EnterMoveEntry(c) ELSE [c EXCEPT !.pc = "rn_handle"]

OpsCallMoveEntry ==
    /\ nextId = 0
    /\ \E sourceDir \in Dirs(fs), name \in Names, targetDir \in Dirs(fs),
          kind \in {"file", "directory"}, newName \in NewNames :
         /\ Elsewhere(sourceDir, name, targetDir, newName)
         /\ tasks' = {Started(Call("moveEntry", sourceDir, name, targetDir, kind, newName))}
    /\ nextId' = nextId + 1
    /\ UNCHANGED <<fs, hasMove, crash, app>>

OpsCallRenameEntry ==
    /\ nextId = 0
    /\ \E parentHandle \in Dirs(fs), oldName \in Names, newName \in NewNames \ {NoName},
          kind \in {"file", "directory"} :
         /\ oldName # newName
         /\ tasks' = {Started(Call("renameEntry", parentHandle, oldName, parentHandle, kind, newName))}
    /\ nextId' = nextId + 1
    /\ UNCHANGED <<fs, hasMove, crash, app>>

InFlight(t) == t.pc \notin {"returned", "threw"}

\* The process stops between two storage calls; the store stays as it is.
Interrupt ==
    /\ crash.op = "none"
    /\ \E t \in tasks :
         /\ InFlight(t)
         /\ crash' = t
         /\ tasks' = tasks \ {t}
    /\ UNCHANGED <<fs, hasMove, nextId, app>>

\* The same call again, on the store the interruption left.
OpsRetry ==
    /\ crash.op \in {"moveEntry", "renameEntry"}
    /\ ~crash.retry
    /\ tasks = {}
    /\ tasks' = {Started([Call(crash.op, crash.sourceDir, crash.name, crash.targetDir,
                                crash.kind, crash.newName)
                           EXCEPT !.retry = TRUE, !.crashPc = crash.pc, !.orig = crash.pre])}
    /\ crash' = [crash EXCEPT !.retry = TRUE]
    /\ nextId' = nextId + 1
    /\ UNCHANGED <<fs, hasMove, app>>

\* moveEntry with a directory as the source and that directory, or one
\* below it, as the target directory.
OpsCallMoveInto ==
    /\ nextId = 0
    /\ \E sourceDir \in Dirs(fs), name \in Names, targetDir \in Dirs(fs), newName \in NewNames :
         /\ Exists(fs, Append(sourceDir, name))
         /\ IsDir(fs, Append(sourceDir, name))
         /\ IsPrefix(Append(sourceDir, name), targetDir)
         /\ tasks' = {Started(Call("moveEntry", sourceDir, name, targetDir, "directory", newName))}
    /\ nextId' = nextId + 1
    /\ UNCHANGED <<fs, hasMove, crash, app>>

OpsInit ==
    /\ fs \in InitStores
    /\ hasMove \in BOOLEAN
    /\ tasks = {}
    /\ nextId = 0
    /\ crash = NoCrash
    /\ NoWorkspace
    /\ localStorage = NoSession

OpsNext ==
    \/ OpsCallMoveEntry
    \/ OpsCallRenameEntry
    \/ Interrupt
    \/ OpsRetry
    \/ \E t \in tasks : TransferGetSource(t)
    \/ \E t \in tasks : TransferGetFile(t)
    \/ \E t \in tasks : TransferGetTarget(t)
    \/ \E t \in tasks : TransferCreateWritable(t)
    \/ \E t \in tasks : TransferWrite(t)
    \/ \E t \in tasks : TransferClose(t)
    \/ \E t \in tasks : MoveRemoveSource(t)
    \/ \E t \in tasks : MoveDirGetSource(t)
    \/ \E t \in tasks : MoveDirGetTarget(t)
    \/ \E t \in tasks : MoveDirRemoveSource(t)
    \/ \E t \in tasks : CopyNext(t)
    \/ \E t \in tasks : CopySubSource(t)
    \/ \E t \in tasks : CopySubTarget(t)
    \/ \E t \in tasks : RenameGetHandle(t)
    \/ \E t \in tasks : RenameNativeMove(t)

SpecOps == OpsInit /\ [][OpsNext]_vars

\* The same store and steps under a call that aims a directory into itself.
\* The copy then finds, in every directory it enters, the directory it has
\* just made there, and line 249 is not reached.
IntoNext ==
    \/ OpsCallMoveInto
    \/ \E t \in tasks : TransferGetSource(t)
    \/ \E t \in tasks : TransferGetFile(t)
    \/ \E t \in tasks : TransferGetTarget(t)
    \/ \E t \in tasks : TransferCreateWritable(t)
    \/ \E t \in tasks : TransferWrite(t)
    \/ \E t \in tasks : TransferClose(t)
    \/ \E t \in tasks : MoveDirGetSource(t)
    \/ \E t \in tasks : MoveDirGetTarget(t)
    \/ \E t \in tasks : CopyNext(t)
    \/ \E t \in tasks : CopySubSource(t)
    \/ \E t \in tasks : CopySubTarget(t)

SpecInto == OpsInit /\ [][IntoNext]_vars

(***************************************************************************)
(* Claims about the entry operations, checked under SpecOps.               *)
(***************************************************************************)
SourceOf(t) == Append(t.sourceDir, t.name)
TargetOf(t) == Append(t.targetDir, TargetName(t.name, t.newName))
Calls == tasks \cup (IF crash.op = "none" THEN {} ELSE {crash})

\* C1: once moveEntry(src, f, dst, 'file') has returned, dst holds f (or
\* newName) with the content f had in src at the call, and src holds no f.
C1_MoveConservation ==
    \A t \in tasks :
        (t.op = "moveEntry" /\ t.kind = "file" /\ t.pc = "returned") =>
            /\ IsFile(t.pre, SourceOf(t))
            /\ IsFile(fs, TargetOf(t))
            /\ fs[TargetOf(t)].data = t.pre[SourceOf(t)].data
            /\ ~Exists(fs, SourceOf(t))

C1_Witness ==
    \E t \in tasks :
        /\ t.op = "moveEntry" /\ t.kind = "file" /\ t.pc = "returned"
        /\ t.targetDir # t.sourceDir /\ t.newName # NoName /\ t.newName # t.name
        /\ t.pre[SourceOf(t)].data # EmptyContent

\* C2: at every step of a move (a file, or a directory with all below it),
\* also where the process stopped in it and in the call made again, every
\* file the call was to move is, with its full content, at its source place
\* or at its target place.
FilesBelow(s, p) == {r \in DOMAIN Subtree(s, p) \cup {<<>>} : IsFile(s, p \o r)}
Holds(s, p, c) == IsFile(s, p) /\ s[p].data = c
C2_NeverNeither ==
    \A t \in Calls :
        \A r \in FilesBelow(t.orig, SourceOf(t)) :
            \/ Holds(fs, SourceOf(t) \o r, t.orig[SourceOf(t) \o r].data)
            \/ Holds(fs, TargetOf(t) \o r, t.orig[SourceOf(t) \o r].data)

C2_Witness ==
    \E t \in Calls :
        /\ t.op = "moveEntry" /\ t.kind = "directory" /\ t.pc \in {"mvd_remove", "returned"}
        /\ \E r \in FilesBelow(t.orig, SourceOf(t)) : Len(r) > 0

\* C3: a file move interrupted between the write of the target and the
\* removal of the source, when invoked again, does not fail and ends where
\* the uninterrupted move ends: the store of the first call with the content
\* at the target and the source gone, all else as it was.
MoveResult(s, src, dst) == RemoveTree(Put(s, dst, FileEntry(s[src].data)), src)
C3_RetryConverges ==
    \A t \in tasks :
        (t.op = "moveEntry" /\ t.kind = "file") =>
            /\ (t.retry /\ t.crashPc = "mv_remove") => t.pc # "threw"
            /\ t.pc = "returned" => fs = MoveResult(t.orig, SourceOf(t), TargetOf(t))

C3_Witness ==
    \E t \in tasks :
        /\ t.op = "moveEntry" /\ t.kind = "file" /\ t.pc = "returned"
        /\ t.retry /\ t.crashPc = "mv_remove"
        /\ t.orig[SourceOf(t)].data # EmptyContent

\* C4: once renameEntry has returned, by the host's move or by the copy and
\* delete, the parent holds newName with what oldName held (the content of a
\* file; every entry below a directory) and holds no oldName.
C4_RenameExactlyOne ==
    \A t \in tasks :
        (t.op = "renameEntry" /\ t.pc = "returned") =>
            /\ Exists(t.pre, SourceOf(t))
            /\ ~Exists(fs, SourceOf(t))
            /\ Exists(fs, TargetOf(t))
            /\ fs[TargetOf(t)] = t.pre[SourceOf(t)]
            /\ \A r \in DOMAIN Subtree(t.pre, SourceOf(t)) :
                 /\ Exists(fs, TargetOf(t) \o r)
                 /\ fs[TargetOf(t) \o r] = t.pre[SourceOf(t) \o r]

C4_Witness ==
    \E t \in tasks :
        /\ t.op = "renameEntry" /\ t.pc = "returned" /\ ~hasMove
        /\ t.kind = "directory"
        /\ FilesBelow(t.pre, SourceOf(t)) # {}

(***************************************************************************)
(* The App (part_002, second iteration, lines 851-1600).                   *)
(* A handler in flight is a task; it captures the state of the render it   *)
(* was created in (files, rootDirHandle, isRecycleBinActive) when it       *)
(* starts, and every setFiles(prev => ...) acts on the state of the step   *)
(* it runs in.                                                             *)
(***************************************************************************)
MaxOps == 2
MaxExternal == 2

Handler(op) == [BlankTask EXCEPT !.id = nextId + 1, !.op = op,
                                 !.root = rootDirHandle, !.recycle = isRecycleBinActive]
Finish(t) == tasks \ {t}

\* fileSystem.listFiles (172-183): directories first, then by name.
Entry(s, dir, n) == [name |-> n, kind |-> s[Append(dir, n)].kind]
listFiles(s, dir) ==
    LET IsSubdir(n) == n \in ChildNames(s, dir) /\ IsDir(s, Append(dir, n))
        IsPlain(n) == n \in ChildNames(s, dir) /\ IsFile(s, Append(dir, n))
        names == SelectSeq(NameOrder, IsSubdir) \o SelectSeq(NameOrder, IsPlain)
    IN [i \in 1..Len(names) |-> Entry(s, dir, names[i])]
Visible(e) == ~Hidden(e.name)

\* refreshProjectFiles (974-991), normal view: the root listing without the
\* hidden names.  The handlers that await it show a toast next and end.
EnterRefresh(t, message) ==
    [t EXCEPT !.pc = IF t.recycle THEN "rf_trash" ELSE "rf_list", !.after = message]

RefreshList(t) ==
    /\ t.pc = "rf_list"
    /\ projectFiles' = SelectSeq(listFiles(fs, RootPath), Visible)
    /\ toast' = IF t.after # "" THEN t.after ELSE toast
    /\ tasks' = Finish(t)
    /\ UNCHANGED <<fs, hasMove, nextId, crash, rootDirHandle, files, activeFileId,
                   isRecycleBinActive, autoSaveTimer, autoRenameTimer, docSeq, edits,
                   external, localStorage, isRestoring, recentStore, permission>>

(***************************************************************************)
(* fileSystem.saveFile (196-200): createWritable, write, close.            *)
(***************************************************************************)
EnterSaveFile(t, handle, content, ret, onErr) ==
    [t EXCEPT !.pc = "sv_writable", !.handle = handle, !.content = content,
              !.ret = ret, !.onErr = onErr]

SaveCreateWritable(t) ==
    /\ t.pc = "sv_writable"
    /\ tasks' = Replace(t, IF IsFile(fs, t.handle)
                           THEN [t EXCEPT !.pc = "sv_write", !.buf = EmptyContent]
                           ELSE Throw(t))
    /\ UNCHANGED <<fs, hasMove, nextId, crash, app>>

SaveWrite(t) ==
    /\ t.pc = "sv_write"
    /\ tasks' = Replace(t, [t EXCEPT !.pc = "sv_close", !.buf = t.content])
    /\ UNCHANGED <<fs, hasMove, nextId, crash, app>>

SaveClose(t) ==
    /\ t.pc = "sv_close"
    /\ \E r \in closeWritable(fs, t.handle, t.buf) :
         /\ fs' = r.fs
         /\ tasks' = Replace(t, IF r.ok THEN [t EXCEPT !.pc = t.ret] ELSE Throw(t))
    /\ UNCHANGED <<hasMove, nextId, crash, app>>

ResolveStep_Flat(t) ==
    /\ t.pc = "gp_walk"
    /\ LET r == IF Len(t.parts) > 1 THEN getDirectoryHandle(fs, t.dir, Head(t.parts), FALSE)
                ELSE getFileHandle(fs, t.dir, Head(t.parts), FALSE)
       IN tasks' = Replace(t,
            IF ~r.ok THEN [t EXCEPT !.pc = t.ret, !.found = NoHandle]
            ELSE IF Len(t.parts) > 1
            THEN [t EXCEPT !.dir = Append(t.dir, Head(t.parts)), !.parts = Tail(t.parts)]
            ELSE [t EXCEPT !.pc = t.ret, !.found = <<Head(t.parts)>>])
    /\ UNCHANGED <<fs, hasMove, nextId, crash, app>>

(***************************************************************************)
(* getFileHandleFromPath (1046-1061): one getDirectoryHandle per leading   *)
(* segment, then getFileHandle; any rejection yields null.                 *)
(***************************************************************************)
EnterResolve(t, path, ret) ==
    [t EXCEPT !.pc = "gp_walk", !.parts = path, !.dir = RootPath, !.found = NoHandle,
              !.ret = ret]

ResolveStep(t) ==
    /\ t.pc = "gp_walk"
    /\ LET r == IF Len(t.parts) > 1 THEN getDirectoryHandle(fs, t.dir, Head(t.parts), FALSE)
                ELSE getFileHandle(fs, t.dir, Head(t.parts), FALSE)
       IN tasks' = Replace(t,
            IF ~r.ok THEN [t EXCEPT !.pc = t.ret, !.found = NoHandle]
            ELSE IF Len(t.parts) > 1
            THEN [t EXCEPT !.dir = Append(t.dir, Head(t.parts)), !.parts = Tail(t.parts)]
            ELSE [t EXCEPT !.pc = t.ret, !.found = Append(t.dir, Head(t.parts))])
    /\ UNCHANGED <<fs, hasMove, nextId, crash, app>>

(***************************************************************************)
(* handleSave (1275-1307).                                                 *)
(***************************************************************************)
SetHandle(h) == [handle |-> h]
SetClean == [isDirty |-> FALSE]
SetBound(h, p) == [handle |-> h, path |-> p, isDirty |-> FALSE]

\* Lines 1302-1305, which handleSave reaches with no handle and either a path
\* or no root: what becomes of the document.
SaveWithoutHandle == SetClean

\* Lines 1290-1305, with fileHandle decided.
HandleSaveBranch(t, fileHandle, fl) ==
    IF fileHandle # NoHandle
    THEN [tasks |-> Replace(t, EnterSaveFile(t, fileHandle, t.content, "hs_saved", "hs_catch")),
          files |-> fl, toast |-> toast]
    ELSE IF t.root /\ t.docPath = NoPath
    THEN [tasks |-> Replace(t, [t EXCEPT !.pc = "hs_create", !.onErr = "hs_catch",
                                         !.pre = fs]),
          files |-> fl, toast |-> toast]
    ELSE [tasks |-> Finish(t), files |-> MapDoc(fl, t.fileId, SaveWithoutHandle),
          toast |-> "Saved (Browser Storage)"]

HandleSave ==
    /\ nextId < MaxOps
    /\ activeFileId \in Ids(files)
    /\ ~isImageFile(Find(files, activeFileId).name)
    /\ LET current == Find(files, activeFileId)
           t == [Handler("handleSave") EXCEPT !.fileId = current.id, !.docName = current.name,
                     !.docPath = current.path, !.content = current.content,
                     !.handle = current.handle, !.onErr = "hs_catch"]
           b == HandleSaveBranch(t, current.handle, files)
       IN IF current.handle = NoHandle /\ current.path # NoPath /\ rootDirHandle
          THEN /\ tasks' = tasks \cup {EnterResolve(t, current.path, "hs_recovered")}
               /\ UNCHANGED <<files, toast>>
          ELSE /\ tasks' = b.tasks \cup (tasks \ {t})
               /\ files' = b.files
               /\ toast' = b.toast
    /\ nextId' = nextId + 1
    /\ UNCHANGED <<fs, hasMove, crash, rootDirHandle, activeFileId, projectFiles,
                   isRecycleBinActive, autoSaveTimer, autoRenameTimer, docSeq, edits,
                   external, localStorage, isRestoring, recentStore, permission>>

\* Lines 1284-1288 and on, once getFileHandleFromPath has returned.
HandleSaveRecovered(t) ==
    /\ t.pc = "hs_recovered"
    /\ LET fl == IF t.found # NoHandle THEN MapDoc(files, t.fileId, SetHandle(t.found))
                 ELSE files
           b == HandleSaveBranch(t, t.found, fl)
       IN /\ tasks' = b.tasks
          /\ files' = b.files
          /\ toast' = b.toast
    /\ UNCHANGED <<fs, hasMove, nextId, crash, rootDirHandle, activeFileId, projectFiles,
                   isRecycleBinActive, autoSaveTimer, autoRenameTimer, docSeq, edits,
                   external, localStorage, isRestoring, recentStore, permission>>

\* Lines 1292-1293.
HandleSaveSaved(t) ==
    /\ t.pc = "hs_saved"
    /\ files' = MapDoc(files, t.fileId, SetClean)
    /\ toast' = "Saved to disk"
    /\ tasks' = Finish(t)
    /\ UNCHANGED <<fs, hasMove, nextId, crash, rootDirHandle, activeFileId, projectFiles,
                   isRecycleBinActive, autoSaveTimer, autoRenameTimer, docSeq, edits,
                   external, localStorage, isRestoring, recentStore, permission>>

\* Line 1306.
HandleSaveCatch(t) ==
    /\ t.pc = "hs_catch"
    /\ toast' = "Save failed"
    /\ tasks' = Finish(t)
    /\ UNCHANGED <<fs, hasMove, nextId, crash, rootDirHandle, files, activeFileId,
                   projectFiles, isRecycleBinActive, autoSaveTimer, autoRenameTimer, docSeq,
                   edits, external, localStorage, isRestoring, recentStore, permission>>

\* Line 1295: createFileInDir(rootDirHandle, current.name, current.content).
HandleSaveCreate(t) ==
    /\ t.pc = "hs_create"
    /\ LET r == getFileHandle(fs, RootPath, t.docName, TRUE) IN
       /\ fs' = r.fs
       /\ tasks' = Replace(t, IF r.ok
                              THEN EnterSaveFile(t, <<t.docName>>, t.content, "hs_resolve", "hs_catch")
                              ELSE Throw(t))
    /\ UNCHANGED <<hasMove, nextId, crash, app>>

\* The variant that clears the dirty flag and binds nothing.
HandleSaveResolve_Unbound(t) ==
    /\ t.pc = "hs_resolve"
    /\ files' = MapDoc(files, t.fileId, SetClean)
    /\ tasks' = Replace(t, EnterRefresh(t, "Saved to folder"))
    /\ UNCHANGED <<fs, hasMove, nextId, crash, rootDirHandle, activeFileId, projectFiles,
                   isRecycleBinActive, autoSaveTimer, autoRenameTimer, toast, docSeq, edits,
                   external, localStorage, isRestoring, recentStore, permission>>

\* Lines 1296-1301: rootDirHandle.resolve(handle), setFiles, then the refresh
\* and the toast.
HandleSaveResolve(t) ==
    /\ t.pc = "hs_resolve"
    /\ files' = MapDoc(files, t.fileId, SetBound(t.handle, t.handle))
    /\ tasks' = Replace(t, EnterRefresh(t, "Saved to folder"))
    /\ UNCHANGED <<fs, hasMove, nextId, crash, rootDirHandle, activeFileId, projectFiles,
                   isRecycleBinActive, autoSaveTimer, autoRenameTimer, toast, docSeq, edits,
                   external, localStorage, isRestoring, recentStore, permission>>

(***************************************************************************)
(* handleProjectFileSelect (1164-1219).  The isSameEntry loop and the      *)
(* existingByPath lookup read the files of the render the handler was      *)
(* created in and compare locators only, so their outcome is fixed when    *)
(* the handler starts; what they await is kept as a step.                  *)
(***************************************************************************)
MaxDocs == 2

\* The first of the indices that pass a test, or 0.
FirstIndex(passing) ==
    IF passing = {} THEN 0 ELSE CHOOSE i \in passing : \A j \in passing : i <= j

\* Array.prototype.find over the documents: the id of the first that passes,
\* or NoId.
FindId(fl, passing) ==
    IF passing = {} THEN NoId ELSE fl[FirstIndex(passing)].id

Select(handle) ==
    LET Same == {i \in 1..Len(files) :
                    files[i].handle # NoHandle /\ files[i].handle = handle}
        ByPath == {i \in 1..Len(files) :
                      files[i].handle = NoHandle /\ files[i].path = handle}
        t == [Handler("select") EXCEPT !.handle = handle]
    IN IF FindId(files, Same) # NoId
       THEN [t EXCEPT !.pc = "ps_same", !.fileId = FindId(files, Same)]
       ELSE [t EXCEPT !.pc = "ps_resolve",
                      !.fileId = IF t.root THEN FindId(files, ByPath) ELSE NoId]

\* A click on a file of the tree (Sidebar 219-227): the root level shows
\* projectFiles, the levels below what the folder holds.
TreeFiles ==
    {<<projectFiles[i].name>> : i \in {j \in 1..Len(projectFiles) : projectFiles[j].kind = "file"}}
    \cup {p \in DOMAIN fs : Len(p) > 1 /\ IsFile(fs, p) /\ \A i \in 1..Len(p) : ~Hidden(p[i])}

HandleProjectFileSelect ==
    /\ nextId < MaxOps
    /\ docSeq < MaxDocs
    /\ \E handle \in TreeFiles : tasks' = tasks \cup {Select(handle)}
    /\ nextId' = nextId + 1
    /\ UNCHANGED <<fs, hasMove, crash, app>>

\* Lines 1167-1171.
SelectSame(t) ==
    /\ t.pc = "ps_same"
    /\ activeFileId' = t.fileId
    /\ tasks' = Finish(t)
    /\ UNCHANGED <<fs, hasMove, nextId, crash, rootDirHandle, files, projectFiles,
                   isRecycleBinActive, autoSaveTimer, autoRenameTimer, toast, docSeq, edits,
                   external, localStorage, isRestoring, recentStore, permission>>

\* Lines 1177-1206, up to the call of readFile.
SelectResolve(t) ==
    /\ t.pc = "ps_resolve"
    /\ IF t.fileId # NoId
       THEN /\ files' = MapDoc(files, t.fileId, [handle |-> t.handle, isDirty |-> FALSE])
            /\ activeFileId' = t.fileId
            /\ tasks' = Finish(t)
            /\ UNCHANGED docSeq
       ELSE IF isImageFile(Last(t.handle))
       THEN /\ files' = Append(files, Doc(docSeq + 1, Last(t.handle),
                                          IF t.root THEN t.handle ELSE NoPath, t.handle,
                                          EmptyContent, FALSE))
            /\ activeFileId' = docSeq + 1
            /\ docSeq' = docSeq + 1
            /\ tasks' = Finish(t)
       ELSE /\ tasks' = Replace(t, [t EXCEPT !.pc = "ps_getFile"])
            /\ UNCHANGED <<files, activeFileId, docSeq>>
    /\ UNCHANGED <<fs, hasMove, nextId, crash, rootDirHandle, projectFiles,
                   isRecycleBinActive, autoSaveTimer, autoRenameTimer, toast, edits, external,
                   localStorage, isRestoring, recentStore, permission>>

\* readFile (188-191): handle.getFile().
SelectGetFile(t) ==
    /\ t.pc = "ps_getFile"
    /\ tasks' = IF IsFile(fs, t.handle)
                THEN Replace(t, [t EXCEPT !.pc = "ps_text", !.file = getFile(fs, t.handle)])
                ELSE Finish(t)
    /\ UNCHANGED <<fs, hasMove, nextId, crash, app>>

\* readFile (188-191): file.text(), then lines 1207-1217.
SelectText(t) ==
    /\ t.pc = "ps_text"
    /\ IF Readable(fs, t.file)
       THEN /\ files' = Append(files, Doc(docSeq + 1, Last(t.handle),
                                          IF t.root THEN t.handle ELSE NoPath, t.handle,
                                          t.file.data, FALSE))
            /\ activeFileId' = docSeq + 1
            /\ docSeq' = docSeq + 1
       ELSE UNCHANGED <<files, activeFileId, docSeq>>
    /\ tasks' = Finish(t)
    /\ UNCHANGED <<fs, hasMove, nextId, crash, rootDirHandle, projectFiles,
                   isRecycleBinActive, autoSaveTimer, autoRenameTimer, toast, edits, external,
                   localStorage, isRestoring, recentStore, permission>>

(***************************************************************************)
(* handleLinkClick (1352-1365).  A link target is a name without an        *)
(* extension, so the candidates are the target and the target with ".md".  *)
(***************************************************************************)
LinkTargets == {"a"}
Candidates(target) ==
    IF Len(NameParts(target)) > 1 THEN <<target>> ELSE <<target, JoinName(<<target, "md">>)>>

HandleLinkClick ==
    /\ \E target \in LinkTargets :
         LET cands == Candidates(target)
             OpenAs(name) == FindId(files, {i \in 1..Len(files) : files[i].name = name})
             IsOpen(name) == OpenAs(name) # NoId
             Listed(name) ==
                 FirstIndex({i \in 1..Len(projectFiles) : projectFiles[i].name = name})
             IsListedFile(name) ==
                 Listed(name) # 0 /\ projectFiles[Listed(name)].kind = "file"
             newName == cands[Len(cands)]
             firstOpen == FirstIndex({i \in 1..Len(cands) : IsOpen(cands[i])})
             firstListed == FirstIndex({i \in 1..Len(cands) : IsListedFile(cands[i])})
         IN /\ ~(activeFileId \in Ids(files)
                 /\ Find(files, activeFileId).name \in {target, JoinName(<<target, "md">>)})
            /\ IF firstOpen # 0
               THEN /\ activeFileId' = OpenAs(cands[firstOpen])
                    /\ UNCHANGED <<files, docSeq, tasks, nextId>>
               ELSE IF firstListed # 0
               THEN /\ nextId < MaxOps
                    /\ docSeq < MaxDocs
                    /\ tasks' = tasks \cup {Select(<<cands[firstListed]>>)}
                    /\ nextId' = nextId + 1
                    /\ UNCHANGED <<files, activeFileId, docSeq>>
               ELSE /\ docSeq < MaxDocs
                    /\ files' = Append(files, Doc(docSeq + 1, newName, NoPath, NoHandle,
                                                  Text(target, 0), TRUE))
                    /\ activeFileId' = docSeq + 1
                    /\ docSeq' = docSeq + 1
                    /\ UNCHANGED <<tasks, nextId>>
    /\ UNCHANGED <<fs, hasMove, crash, rootDirHandle, projectFiles, isRecycleBinActive,
                   autoSaveTimer, autoRenameTimer, toast, edits, external,
                   localStorage, isRestoring, recentStore, permission>>

\* A click on a tab: setActiveFileId(file.id).
HandleTabClick ==
    /\ \E id \in Ids(files) \ {activeFileId} : activeFileId' = id
    /\ UNCHANGED <<fs, hasMove, tasks, nextId, crash, rootDirHandle, files, projectFiles,
                   isRecycleBinActive, autoSaveTimer, autoRenameTimer, toast, docSeq, edits,
                   external, localStorage, isRestoring, recentStore, permission>>

(***************************************************************************)
(* handleContentChange (1414-1459).  Time is left out: an armed timeout    *)
(* may fire at any later step.  The rename timeout calls the executeRename *)
(* of the render the edit was made in, which sees that render's files,     *)
(* rootDirHandle and isRecycleBinActive; the save timeout reads the files  *)
(* current when it fires.                                                  *)
(***************************************************************************)
MaxEdits == 2
Titles == {"a", "b?"}
\* What the n-th edit leaves in the editor: text that is in no file yet.
Typed(title, n) == Text(title, Cardinality(DOMAIN Universe) + n)

\* sanitizeFileName (681-683): the characters \ / : * ? " < > | are dropped.
sanitizeFileName(name) ==
    CASE name = "b?" -> "b"
      [] OTHER -> name

\* Lines 1427-1429: the title with the extension of the current name, or md.
TitleName(title, name) ==
    JoinName(<<sanitizeFileName(title),
               IF Len(NameParts(name)) > 1 THEN Last(NameParts(name)) ELSE "md">>)

HandleContentChange ==
    /\ activeFileId # NoId
    /\ edits < MaxEdits
    /\ \E title \in Titles :
         LET newContent == Typed(title, edits + 1)
             open == activeFileId \in Ids(files)
             currentFile == Find(files, activeFileId)
         IN /\ autoRenameTimer' =
                 IF /\ title # ""
                    /\ sanitizeFileName(title) # ""
                    /\ open
                    /\ currentFile.name # NoName
                    /\ currentFile.name # TitleName(title, currentFile.name)
                 THEN [NoTimer EXCEPT !.fileId = activeFileId,
                                      !.newName = TitleName(title, currentFile.name),
                                      !.docName = currentFile.name,
                                      !.docPath = currentFile.path,
                                      !.root = rootDirHandle,
                                      !.recycle = isRecycleBinActive]
                 ELSE autoRenameTimer
            /\ files' = MapDoc(files, activeFileId, [content |-> newContent, isDirty |-> TRUE])
            /\ autoSaveTimer' = [NoTimer EXCEPT !.fileId = activeFileId, !.content = newContent]
    /\ edits' = edits + 1
    /\ UNCHANGED <<fs, hasMove, tasks, nextId, crash, rootDirHandle, activeFileId,
                   projectFiles, isRecycleBinActive, toast, docSeq, external,
                   localStorage, isRestoring, recentStore, permission>>

\* The save timeout fires (1445-1457): saveFile through the handle the document
\* has now, with the content of the edit that armed it.
AutoSaveFire ==
    /\ autoSaveTimer # NoTimer
    /\ nextId < MaxOps
    /\ LET id == autoSaveTimer.fileId
           t == [Handler("autoSave") EXCEPT !.fileId = id]
       IN tasks' = IF id \in Ids(files) /\ Find(files, id).handle # NoHandle
                   THEN tasks \cup {EnterSaveFile(t, Find(files, id).handle,
                                                  autoSaveTimer.content, "as_saved", "as_catch")}
                   ELSE tasks
    /\ autoSaveTimer' = NoTimer
    /\ nextId' = nextId + 1
    /\ UNCHANGED <<fs, hasMove, crash, rootDirHandle, files, activeFileId, projectFiles,
                   isRecycleBinActive, autoRenameTimer, toast, docSeq, edits, external,
                   localStorage, isRestoring, recentStore, permission>>

\* Line 1450.
AutoSaveSaved(t) ==
    /\ t.pc = "as_saved"
    /\ files' = MapDoc(files, t.fileId, SetClean)
    /\ tasks' = Finish(t)
    /\ UNCHANGED <<fs, hasMove, nextId, crash, rootDirHandle, activeFileId, projectFiles,
                   isRecycleBinActive, autoSaveTimer, autoRenameTimer, toast, docSeq, edits,
                   external, localStorage, isRestoring, recentStore, permission>>

\* Mutant: the failed save treated like a finished one.
AutoSaveCatch_Clean(t) ==
    /\ t.pc = "as_catch"
    /\ files' = MapDoc(files, t.fileId, SetClean)
    /\ tasks' = Finish(t)
    /\ UNCHANGED <<fs, hasMove, nextId, crash, rootDirHandle, activeFileId, projectFiles,
                   isRecycleBinActive, autoSaveTimer, autoRenameTimer, toast, docSeq, edits,
                   external, localStorage, isRestoring, recentStore, permission>>

\* Line 1451.
AutoSaveCatch(t) ==
    /\ t.pc = "as_catch"
    /\ tasks' = Finish(t)
    /\ UNCHANGED <<fs, hasMove, nextId, crash, app>>

(***************************************************************************)
(* executeRename (1368-1412), called by the rename timeout.                *)
(***************************************************************************)
AutoRenameFire ==
    /\ autoRenameTimer # NoTimer
    /\ nextId < MaxOps
    /\ LET tm == autoRenameTimer
           parts == IF tm.docPath # NoPath THEN Parent(tm.docPath) ELSE <<>>
           t == [Handler("executeRename") EXCEPT
                   !.root = tm.root, !.recycle = tm.recycle, !.fileId = tm.fileId,
                   !.docName = tm.docName, !.docPath = tm.docPath,
                   !.sourceDir = RootPath, !.targetDir = RootPath, !.name = tm.docName,
                   !.newName = tm.newName, !.kind = "file", !.parts = parts,
                   !.ret = "er_handle", !.onErr = "er_catch", !.pre = fs,
                   !.pc = IF parts # <<>> THEN "er_walk" ELSE "rn_handle"]
       IN tasks' = IF tm.root /\ tm.docName # tm.newName THEN tasks \cup {t} ELSE tasks
    /\ autoRenameTimer' = NoTimer
    /\ nextId' = nextId + 1
    /\ UNCHANGED <<fs, hasMove, crash, rootDirHandle, files, activeFileId, projectFiles,
                   isRecycleBinActive, autoSaveTimer, toast, docSeq, edits, external,
                   localStorage, isRestoring, recentStore, permission>>

\* Lines 1381-1383: one getDirectoryHandle per folder of the path.
ExecuteRenameWalk(t) ==
    /\ t.pc = "er_walk"
    /\ LET r == getDirectoryHandle(fs, t.sourceDir, Head(t.parts), FALSE)
           dir == Append(t.sourceDir, Head(t.parts))
       IN tasks' = Replace(t,
            IF ~r.ok THEN Throw(t)
            ELSE [t EXCEPT !.sourceDir = dir, !.targetDir = dir, !.parts = Tail(t.parts),
                           !.pc = IF Tail(t.parts) # <<>> THEN "er_walk" ELSE "rn_handle"])
    /\ UNCHANGED <<fs, hasMove, nextId, crash, app>>

\* What line 1400 makes of the document.
Renamed(newName, newPath, newHandle) ==
    IF newHandle # NoHandle
    THEN [name |-> newName, path |-> newPath, handle |-> newHandle]
    ELSE [name |-> newName, path |-> newPath]

\* Lines 1391-1407, from getFileHandle(newName) on.
ExecuteRenameHandle(t) ==
    /\ t.pc = "er_handle"
    /\ LET r == getFileHandle(fs, t.sourceDir, t.newName, FALSE)
           newHandle == IF r.ok THEN Append(t.sourceDir, t.newName) ELSE NoHandle
           newPath == Append(Parent(t.docPath), t.newName)
       IN files' = MapDoc(files, t.fileId, Renamed(t.newName, newPath, newHandle))
    /\ tasks' = IF t.docPath = NoPath \/ Len(t.docPath) = 1
                THEN Replace(t, EnterRefresh(t, ""))
                ELSE Finish(t)
    /\ UNCHANGED <<fs, hasMove, nextId, crash, rootDirHandle, activeFileId, projectFiles,
                   isRecycleBinActive, autoSaveTimer, autoRenameTimer, toast, docSeq, edits,
                   external, localStorage, isRestoring, recentStore, permission>>

\* Lines 1409-1411.
ExecuteRenameCatch(t) ==
    /\ t.pc = "er_catch"
    /\ tasks' = Finish(t)
    /\ UNCHANGED <<fs, hasMove, nextId, crash, app>>

(***************************************************************************)
(* confirmRename (1497-1552), on the entry the rename dialog was opened    *)
(* for (handleRenameRequest 1492-1495) and the name typed into it.         *)
(***************************************************************************)
RenameNames == {"b.md"}

\* The entries the tree offers: projectFiles at the root, the store below.
TreeEntries ==
    {[parent |-> RootPath, name |-> projectFiles[i].name, kind |-> projectFiles[i].kind] :
        i \in 1..Len(projectFiles)}
    \cup {[parent |-> Parent(p), name |-> Last(p), kind |-> fs[p].kind] :
            p \in {q \in DOMAIN fs : Len(q) > 1 /\ \A i \in 1..Len(q) : ~Hidden(q[i])}}

ConfirmRename ==
    /\ nextId < MaxOps
    /\ \E target \in TreeEntries, renameName \in RenameNames :
         /\ renameName # target.name
         /\ tasks' = tasks \cup
              {[Handler("confirmRename") EXCEPT
                  !.sourceDir = target.parent, !.targetDir = target.parent,
                  !.name = target.name, !.newName = renameName, !.kind = target.kind,
                  !.ret = IF target.kind = "file" THEN "cr_handle" ELSE "cr_renamed",
                  !.onErr = "cr_catch", !.pc = "rn_handle", !.pre = fs]}
    /\ nextId' = nextId + 1
    /\ UNCHANGED <<fs, hasMove, crash, app>>

\* Lines 1529-1538: which documents the rename rebinds, and to what.
Rebound(f, oldName, renameName, newPath, newHandle) ==
    IF /\ f.name = oldName
       /\ ~(f.path # NoPath /\ newPath # NoPath /\ f.path # Append(Parent(newPath), oldName))
    THEN [f EXCEPT !.name = renameName,
                   !.path = IF newPath # NoPath THEN newPath ELSE f.path,
                   !.handle = IF newHandle # NoHandle THEN newHandle ELSE f.handle]
    ELSE f

Rebind(fl, t, newPath, newHandle) ==
    [i \in 1..Len(fl) |-> Rebound(fl[i], t.name, t.newName, newPath, newHandle)]

\* Lines 1516-1545 for a file in the root: getFileHandle(renameName), setFiles,
\* then the refresh.  Below the root, resolve(parentHandle) is awaited first.
ConfirmRenameHandle(t) ==
    /\ t.pc = "cr_handle"
    /\ LET r == getFileHandle(fs, t.sourceDir, t.newName, FALSE)
           newHandle == IF r.ok THEN Append(t.sourceDir, t.newName) ELSE NoHandle
       IN IF t.root /\ t.sourceDir # RootPath
          THEN /\ tasks' = Replace(t, [t EXCEPT !.pc = "cr_resolve", !.found = newHandle])
               /\ UNCHANGED <<files, toast>>
          ELSE /\ files' = Rebind(files, t, IF t.root THEN <<t.newName>> ELSE NoPath, newHandle)
               /\ IF t.root
                  THEN tasks' = Replace(t, EnterRefresh(t, "Renamed successfully"))
                       /\ UNCHANGED toast
                  ELSE tasks' = Finish(t) /\ toast' = "Renamed successfully"
    /\ UNCHANGED <<fs, hasMove, nextId, crash, rootDirHandle, activeFileId, projectFiles,
                   isRecycleBinActive, autoSaveTimer, autoRenameTimer, docSeq, edits,
                   external, localStorage, isRestoring, recentStore, permission>>

\* Lines 1524-1545 for a file below the root.
ConfirmRenameResolve(t) ==
    /\ t.pc = "cr_resolve"
    /\ files' = Rebind(files, t, Append(t.sourceDir, t.newName), t.found)
    /\ toast' = "Renamed successfully"
    /\ tasks' = Finish(t)
    /\ UNCHANGED <<fs, hasMove, nextId, crash, rootDirHandle, activeFileId, projectFiles,
                   isRecycleBinActive, autoSaveTimer, autoRenameTimer, docSeq, edits,
                   external, localStorage, isRestoring, recentStore, permission>>

\* Lines 1541-1545 for a directory.
ConfirmRenameRenamed(t) ==
    /\ t.pc = "cr_renamed"
    /\ IF t.root /\ t.sourceDir = RootPath
       THEN tasks' = Replace(t, EnterRefresh(t, "Renamed successfully")) /\ UNCHANGED toast
       ELSE tasks' = Finish(t) /\ toast' = "Renamed successfully"
    /\ UNCHANGED <<fs, hasMove, nextId, crash, rootDirHandle, files, activeFileId,
                   projectFiles, isRecycleBinActive, autoSaveTimer, autoRenameTimer, docSeq,
                   edits, external, localStorage, isRestoring, recentStore, permission>>

\* Lines 1547-1550.
ConfirmRenameCatch(t) ==
    /\ t.pc = "cr_catch"
    /\ toast' = "Rename failed"
    /\ tasks' = Finish(t)
    /\ UNCHANGED <<fs, hasMove, nextId, crash, rootDirHandle, files, activeFileId,
                   projectFiles, isRecycleBinActive, autoSaveTimer, autoRenameTimer, docSeq,
                   edits, external, localStorage, isRestoring, recentStore, permission>>

(***************************************************************************)
(* handleCreateFile (1221-1252), from the toolbar (the root) or from the   *)
(* menu of a folder of the tree.  The name is Untitled- and the last four  *)
(* digits of the clock in milliseconds; with no folder open, Untitled- and *)
(* the number of documents plus one.                                       *)
(***************************************************************************)
UntitledNames == <<"Untitled-1.md", "Untitled-2.md">>

HandleCreateFile ==
    /\ docSeq < MaxDocs
    /\ IF rootDirHandle
       THEN /\ ~isRecycleBinActive
            /\ nextId < MaxOps
            /\ \E dir \in {q \in Dirs(fs) : \A i \in 1..Len(q) : ~Hidden(q[i])},
                  k \in 1..Len(UntitledNames) :
                 tasks' = tasks \cup
                     {[Handler("handleCreateFile") EXCEPT
                         !.targetDir = dir, !.name = UntitledNames[k], !.pre = fs,
                         !.pc = "cf_handle", !.onErr = "cf_catch"]}
            /\ nextId' = nextId + 1
            /\ UNCHANGED <<files, activeFileId, docSeq>>
       ELSE /\ files' = Append(files, Doc(docSeq + 1, UntitledNames[Len(files) + 1], NoPath,
                                          NoHandle, EmptyContent, TRUE))
            /\ activeFileId' = docSeq + 1
            /\ docSeq' = docSeq + 1
            /\ UNCHANGED <<tasks, nextId>>
    /\ UNCHANGED <<fs, hasMove, crash, rootDirHandle, projectFiles, isRecycleBinActive,
                   autoSaveTimer, autoRenameTimer, toast, edits, external,
                   localStorage, isRestoring, recentStore, permission>>

\* createFileInDir (fileSystem 205-209): getFileHandle(name, {create: true}),
\* then saveFile of the content.
CreateGetHandle(t) ==
    /\ t.pc = "cf_handle"
    /\ LET r == getFileHandle(fs, t.targetDir, t.name, TRUE) IN
       /\ fs' = r.fs
       /\ tasks' = Replace(t,
            IF r.ok
            THEN EnterSaveFile(t, Append(t.targetDir, t.name), EmptyContent,
                               IF t.targetDir = RootPath THEN "cf_refresh" ELSE "cf_resolve",
                               "cf_catch")
            ELSE Throw(t))
    /\ UNCHANGED <<hasMove, nextId, crash, app>>

\* Line 1228: refreshProjectFiles, for a file created in the root.
CreateRefresh(t) ==
    /\ t.pc = "cf_refresh"
    /\ projectFiles' = SelectSeq(listFiles(fs, RootPath), Visible)
    /\ tasks' = Replace(t, [t EXCEPT !.pc = "cf_resolve"])
    /\ UNCHANGED <<fs, hasMove, nextId, crash, rootDirHandle, files, activeFileId,
                   isRecycleBinActive, autoSaveTimer, autoRenameTimer, toast, docSeq, edits,
                   external, localStorage, isRestoring, recentStore, permission>>

\* Lines 1230-1245: rootDirHandle.resolve(handle), then the new document,
\* which becomes the active one.
CreateResolve(t) ==
    /\ t.pc = "cf_resolve"
    /\ files' = Append(files, Doc(docSeq + 1, t.name,
                                  IF Exists(fs, t.handle) THEN t.handle ELSE NoPath,
                                  t.handle, EmptyContent, FALSE))
    /\ activeFileId' = docSeq + 1
    /\ docSeq' = docSeq + 1
    /\ tasks' = Finish(t)
    /\ UNCHANGED <<fs, hasMove, nextId, crash, rootDirHandle, projectFiles,
                   isRecycleBinActive, autoSaveTimer, autoRenameTimer, toast, edits, external,
                   localStorage, isRestoring, recentStore, permission>>

\* Line 1246.
CreateCatch(t) ==
    /\ t.pc = "cf_catch"
    /\ tasks' = Finish(t)
    /\ UNCHANGED <<fs, hasMove, nextId, crash, app>>

(***************************************************************************)
(* The recycle bin.  The toggle of the sidebar flips isRecycleBinActive    *)
(* (1706) and the effect of line 966 then refreshes the listing: in the    *)
(* bin view, getDirectoryHandle(TRASH_DIR_NAME) and listFiles of it, an    *)
(* empty listing where either fails (977-984).  A refresh asked for again  *)
(* while the same one is still awaited is one refresh.                     *)
(***************************************************************************)
TrashPath == <<TRASH_DIR_NAME>>

ToggleRecycleBin ==
    /\ rootDirHandle
    /\ isRecycleBinActive' = ~isRecycleBinActive
    /\ tasks' = tasks \cup {EnterRefresh([BlankTask EXCEPT !.op = "refresh", !.root = TRUE,
                                                           !.recycle = ~isRecycleBinActive], "")}
    /\ UNCHANGED <<fs, hasMove, nextId, crash, rootDirHandle, files, activeFileId,
                   projectFiles, autoSaveTimer, autoRenameTimer, toast, docSeq, edits,
                   external, localStorage, isRestoring, recentStore, permission>>

\* handleCloseFile (1266-1273) as confirmDelete calls it (1487-1488): on the
\* files and the activeFileId of the render confirmDelete was created in.
CloseByName(t) ==
    LET hit == FirstIndex({i \in 1..Len(t.docs) : t.docs[i].name = t.name})
        keep(f) == f.id # t.docs[hit].id
        newFiles == SelectSeq(t.docs, keep)
    IN IF t.op # "confirmDelete" THEN [files |-> files, active |-> activeFileId]
       ELSE IF hit = 0 THEN [files |-> files, active |-> activeFileId]
       ELSE [files |-> newFiles,
             active |-> IF t.active # t.docs[hit].id THEN activeFileId
                        ELSE IF newFiles = <<>> THEN NoId
                        ELSE newFiles[Len(newFiles)].id]

\* The bin view of refreshProjectFiles, then what the handler that awaited it
\* does next: its toast, and for confirmDelete the closing of the document.
RefreshTrash(t) ==
    /\ t.pc \in {"rf_trash", "rf_items"}
    /\ IF t.pc = "rf_trash" /\ IsDir(fs, TrashPath)
       THEN /\ tasks' = Replace(t, [t EXCEPT !.pc = "rf_items"])
            /\ UNCHANGED <<projectFiles, toast, files, activeFileId>>
       ELSE /\ projectFiles' = IF IsDir(fs, TrashPath) THEN listFiles(fs, TrashPath) ELSE <<>>
            /\ toast' = IF t.after # "" THEN t.after ELSE toast
            /\ files' = CloseByName(t).files
            /\ activeFileId' = CloseByName(t).active
            /\ tasks' = Finish(t)
    /\ UNCHANGED <<fs, hasMove, nextId, crash, rootDirHandle, isRecycleBinActive,
                   autoSaveTimer, autoRenameTimer, docSeq, edits, external,
                   localStorage, isRestoring, recentStore, permission>>

(***************************************************************************)
(* confirmDelete (1470-1490), on the entry the delete dialog was opened    *)
(* for (handleDeleteRequest 1466-1468).  The tree hands over the name and  *)
(* kind of the entry and the handle of the folder it is shown in; the      *)
(* entries of the top level are shown in the root in either view (Sidebar  *)
(* 273-277).                                                               *)
(***************************************************************************)
DeleteEntries ==
    IF ~isRecycleBinActive THEN TreeEntries
    ELSE {[parent |-> RootPath, name |-> projectFiles[i].name, kind |-> projectFiles[i].kind] :
             i \in 1..Len(projectFiles)}
         \cup {[parent |-> Parent(p), name |-> Last(p), kind |-> fs[p].kind] :
                 p \in {q \in DOMAIN fs : Len(q) > 2 /\ IsPrefix(TrashPath, q)}}

ConfirmDelete ==
    /\ nextId < MaxOps
    /\ rootDirHandle
    /\ \E target \in DeleteEntries :
         tasks' = tasks \cup
             {[Handler("confirmDelete") EXCEPT
                 !.sourceDir = target.parent, !.name = target.name, !.kind = target.kind,
                 !.targetDir = TrashPath, !.docs = files, !.active = activeFileId,
                 !.alone = (\A u \in tasks : u.op = "refresh"),
                 !.ret = "cd_moved", !.onErr = "cd_catch", !.pre = fs,
                 !.pc = IF isRecycleBinActive THEN "cd_remove" ELSE "cd_trash"]}
    /\ nextId' = nextId + 1
    /\ UNCHANGED <<fs, hasMove, crash, app>>

\* Mutant: the soft delete that removes the entry instead of moving it.
ConfirmDeleteTrash_Remove(t) ==
    /\ t.pc = "cd_trash"
    /\ LET r == removeEntry(fs, t.sourceDir, t.name, TRUE) IN
       /\ fs' = r.fs
       /\ tasks' = Replace(t, IF r.ok THEN [t EXCEPT !.pc = t.ret] ELSE Throw(t))
    /\ UNCHANGED <<hasMove, nextId, crash, app>>

\* Line 1479: getDirectoryHandle(TRASH_DIR_NAME, {create: true}), then moveEntry.
ConfirmDeleteTrash(t) ==
    /\ t.pc = "cd_trash"
    /\ LET r == getDirectoryHandle(fs, RootPath, TRASH_DIR_NAME, TRUE) IN
       /\ fs' = r.fs
       /\ tasks' = Replace(t, IF r.ok THEN EnterMoveEntry(t) ELSE Throw(t))
    /\ UNCHANGED <<hasMove, nextId, crash, app>>

\* Lines 1476-1477 and 1483: removeEntry(name, {recursive: true}), the toast,
\* then the refresh of the bin view.
ConfirmDeleteRemove(t) ==
    /\ t.pc = "cd_remove"
    /\ LET r == removeEntry(fs, t.sourceDir, t.name, TRUE) IN
       /\ fs' = r.fs
       /\ toast' = IF r.ok THEN "Deleted forever" ELSE toast
       /\ tasks' = Replace(t, IF r.ok THEN EnterRefresh(t, "") ELSE Throw(t))
    /\ UNCHANGED <<hasMove, nextId, crash, rootDirHandle, files, activeFileId, projectFiles,
                   isRecycleBinActive, autoSaveTimer, autoRenameTimer, docSeq, edits,
                   external, localStorage, isRestoring, recentStore, permission>>

\* Lines 1481-1489 once moveEntry has returned, and 1484-1489 once anything
\* was caught: the toast, the refresh for an entry of the root, then the
\* closing of the first document that bears the name.
ConfirmDeleteDone(t) ==
    /\ t.pc \in {"cd_moved", "cd_catch"}
    /\ toast' = IF t.pc = "cd_catch" THEN "Delete failed" ELSE "Moved to Recycle Bin"
    /\ projectFiles' = IF t.pc = "cd_moved" /\ t.sourceDir = RootPath
                       THEN SelectSeq(listFiles(fs, RootPath), Visible)
                       ELSE projectFiles
    /\ files' = CloseByName(t).files
    /\ activeFileId' = CloseByName(t).active
    /\ tasks' = Finish(t)
    /\ UNCHANGED <<fs, hasMove, nextId, crash, rootDirHandle, isRecycleBinActive,
                   autoSaveTimer, autoRenameTimer, docSeq, edits, external,
                   localStorage, isRestoring, recentStore, permission>>

(***************************************************************************)
(* handleRestoreFile (1554-1570), on the name of an entry of the bin view. *)
(***************************************************************************)
HandleRestoreFile ==
    /\ nextId < MaxOps
    /\ rootDirHandle /\ isRecycleBinActive
    /\ \E target \in DeleteEntries :
         tasks' = tasks \cup
             {[Handler("handleRestoreFile") EXCEPT
                 !.sourceDir = TrashPath, !.name = target.name, !.targetDir = RootPath,
                 !.ret = "rf_trash", !.after = "File Restored", !.onErr = "rs_catch",
                 !.alone = (\A u \in tasks : u.op = "refresh"),
                 !.pre = fs, !.pc = "rs_trash"]}
    /\ nextId' = nextId + 1
    /\ UNCHANGED <<fs, hasMove, crash, app>>

\* Lines 1557-1566: getDirectoryHandle(TRASH_DIR_NAME), then getFileHandle to
\* tell a file from a directory, then moveEntry.
RestoreProbe(t) ==
    /\ t.pc \in {"rs_trash", "rs_kind"}
    /\ tasks' = Replace(t,
         IF t.pc = "rs_trash"
         THEN IF IsDir(fs, TrashPath) THEN [t EXCEPT !.pc = "rs_kind"] ELSE Throw(t)
         ELSE EnterMoveEntry([t EXCEPT !.kind =
                 IF getFileHandle(fs, TrashPath, t.name, FALSE).ok THEN "file"
                 ELSE "directory"]))
    /\ UNCHANGED <<fs, hasMove, nextId, crash, app>>

\* Line 1569.
RestoreCatch(t) ==
    /\ t.pc = "rs_catch"
    /\ toast' = "Restore failed"
    /\ tasks' = Finish(t)
    /\ UNCHANGED <<fs, hasMove, nextId, crash, rootDirHandle, files, activeFileId,
                   projectFiles, isRecycleBinActive, autoSaveTimer, autoRenameTimer, docSeq,
                   edits, external, localStorage, isRestoring, recentStore, permission>>

(***************************************************************************)
(* saveWorkspaceState (930-953), which a timeout runs two seconds after    *)
(* any change of what it reads (955-959) and beforeunload runs at once     *)
(* (961-964): always the function of the latest render.  One root is       *)
(* modelled, so its key mdpro_workspace_<name> is the one item there is.   *)
(***************************************************************************)
Saved(f) == [name |-> f.name, path |-> f.path, cursorPosition |-> f.cursorPosition]

SaveWorkspaceState_All ==
    /\ rootDirHandle /\ ~isRestoring
    /\ LET HasPath(e) == e.path # NoPath
           all == [i \in 1..Len(files) |-> Saved(files[i])]
       IN localStorage' =
            [openFiles |-> all,
             activeFilePath |-> IF activeFileId \in Ids(files)
                                THEN Find(files, activeFileId).path ELSE NoPath,
             saved |-> TRUE]
    /\ UNCHANGED <<fs, hasMove, tasks, nextId, crash, rootDirHandle, files, activeFileId,
                   projectFiles, isRecycleBinActive, autoSaveTimer, autoRenameTimer, toast,
                   docSeq, edits, external, isRestoring, recentStore, permission>>

SaveWorkspaceState ==
    /\ rootDirHandle /\ ~isRestoring
    /\ LET HasPath(e) == e.path # NoPath
           all == [i \in 1..Len(files) |-> Saved(files[i])]
       IN localStorage' =
            [openFiles |-> SelectSeq(all, HasPath),
             activeFilePath |-> IF activeFileId \in Ids(files)
                                THEN Find(files, activeFileId).path ELSE NoPath,
             saved |-> TRUE]
    /\ UNCHANGED <<fs, hasMove, tasks, nextId, crash, rootDirHandle, files, activeFileId,
                   projectFiles, isRecycleBinActive, autoSaveTimer, autoRenameTimer, toast,
                   docSeq, edits, external, isRestoring, recentStore, permission>>

\* handleCursorChange (1462-1465).
Cursor(i) == [lineNumber |-> i, column |-> 1]

HandleCursorChange ==
    /\ activeFileId \in Ids(files)
    /\ \E c \in {Cursor(9)} :
         /\ Find(files, activeFileId).cursorPosition # c
         /\ files' = MapDoc(files, activeFileId, [cursorPosition |-> c])
    /\ UNCHANGED <<fs, hasMove, tasks, nextId, crash, rootDirHandle, activeFileId,
                   projectFiles, isRecycleBinActive, autoSaveTimer, autoRenameTimer, toast,
                   docSeq, edits, external, localStorage, isRestoring,
                   recentStore, permission>>

(***************************************************************************)
(* handleCloseFolder (1021-1028): the four resets, then getRecents.        *)
(***************************************************************************)
HandleCloseFolder_KeepBin ==
    /\ nextId < MaxOps
    /\ rootDirHandle
    /\ rootDirHandle' = FALSE
    /\ files' = <<>>
    /\ activeFileId' = NoId
    /\ tasks' = tasks \cup {[Handler("handleCloseFolder") EXCEPT
                                !.pc = "cf_recents",
                                !.alone = (\A u \in tasks : u.op = "refresh")]}
    /\ nextId' = nextId + 1
    /\ UNCHANGED <<fs, hasMove, crash, projectFiles, isRecycleBinActive, autoSaveTimer,
                   autoRenameTimer, toast, docSeq, edits, external, localStorage, isRestoring,
                   recentStore, permission>>

HandleCloseFolder ==
    /\ nextId < MaxOps
    /\ rootDirHandle
    /\ rootDirHandle' = FALSE
    /\ files' = <<>>
    /\ activeFileId' = NoId
    /\ isRecycleBinActive' = FALSE
    /\ tasks' = tasks \cup {[Handler("handleCloseFolder") EXCEPT
                                !.pc = "cf_recents",
                                !.alone = (\A u \in tasks : u.op = "refresh")]}
    /\ nextId' = nextId + 1
    /\ UNCHANGED <<fs, hasMove, crash, projectFiles, autoSaveTimer, autoRenameTimer, toast,
                   docSeq, edits, external, localStorage, isRestoring,
                   recentStore, permission>>

CloseFolderRecents(t) ==
    /\ t.pc = "cf_recents"
    /\ tasks' = Finish(t)
    /\ UNCHANGED <<fs, hasMove, nextId, crash, app>>

(***************************************************************************)
(* loadProject (1145-1162) and restoreWorkspace (1063-1143).  The resets   *)
(* come first, then addToRecents and getRecents, then the restore; the     *)
(* change of rootDirHandle makes the effect of line 966 refresh the        *)
(* listing.  The entries of a saved session all have a path                *)
(* (saveWorkspaceState keeps no other).                                    *)
(***************************************************************************)
LoadProject ==
    /\ nextId < MaxOps
    /\ isRestoring' = TRUE
    /\ rootDirHandle' = TRUE
    /\ isRecycleBinActive' = FALSE
    /\ files' = <<>>
    /\ activeFileId' = NoId
    /\ tasks' = tasks \cup
         {[Handler("loadProject") EXCEPT !.root = TRUE, !.recycle = FALSE, !.pc = "lp_recents",
                                         !.pre = fs],
          EnterRefresh([BlankTask EXCEPT !.op = "refresh", !.root = TRUE], "")}
    /\ nextId' = nextId + 1
    /\ UNCHANGED <<fs, hasMove, crash, projectFiles, autoSaveTimer, autoRenameTimer, toast,
                   docSeq, edits, external, localStorage, recentStore, permission>>

\* toLowerCase() === 'readme.md' and toLowerCase().endsWith('.md'), over the
\* names of the model.
IsReadme(n) == n = "Readme.md"
IsMarkdown(n) == Len(NameParts(n)) > 1 /\ Last(NameParts(n)) = "md"

FallbackTarget_FirstMd(items) ==
    FirstIndex({i \in 1..Len(items) : IsMarkdown(items[i].name) /\ items[i].kind = "file"})

\* Lines 1120-1123: the file the fallback opens, as an index of the listing,
\* or 0.
FallbackTarget(items) ==
    LET readme == FirstIndex({i \in 1..Len(items) :
                                 IsReadme(items[i].name) /\ items[i].kind = "file"})
        firstMd == FirstIndex({i \in 1..Len(items) :
                                  IsMarkdown(items[i].name) /\ items[i].kind = "file"})
    IN IF readme # 0 THEN readme ELSE firstMd

\* Lines 1100-1115 once the loop has ended, and the finally of loadProject:
\* what becomes of the task (next, unless done) and of the App.
RestoreEnd(fl, active) ==
    [done |-> TRUE, next |-> BlankTask, files |-> fl, active |-> active, restoring |-> FALSE]

RestoreGoOn(u) ==
    [done |-> FALSE, next |-> u, files |-> files, active |-> activeFileId,
     restoring |-> isRestoring]

RestoreAdvance_First(u) ==
    IF u.queue # <<>>
    THEN RestoreGoOn(EnterResolve(u, Head(u.queue).path, "rw_resolved"))
    ELSE IF u.docs # <<>>
    THEN RestoreEnd(u.docs, u.docs[1].id)
    ELSE RestoreGoOn([u EXCEPT !.pc = "fb_list"])

\* Lines 1074-1115: on to the next saved entry; after the last, the restored
\* documents replace the open ones and the one at activeFilePath, or else the
\* first, becomes active; with none restored, the fallback lists the root.
RestoreAdvance(u) ==
    IF u.queue # <<>>
    THEN RestoreGoOn(EnterResolve(u, Head(u.queue).path, "rw_resolved"))
    ELSE IF u.docs # <<>>
    THEN LET hit == FirstIndex({i \in 1..Len(u.docs) :
                                  u.docs[i].path = u.session.activeFilePath})
         IN RestoreEnd(u.docs,
                       IF u.session.activeFilePath # NoPath /\ hit # 0 THEN u.docs[hit].id
                       ELSE u.docs[1].id)
    ELSE RestoreGoOn([u EXCEPT !.pc = "fb_list"])

\* Line 1112: anything thrown inside the loop ends the restore with nothing
\* restored.
RestoreThrow(u) == RestoreGoOn([u EXCEPT !.pc = "fb_list", !.docs = <<>>])

Apply(t, r) ==
    /\ tasks' = IF r.done THEN Finish(t) ELSE Replace(t, r.next)
    /\ files' = r.files
    /\ activeFileId' = r.active
    /\ isRestoring' = r.restoring

\* Lines 1150-1155 and 1064-1074: the recents, then the item of the root is
\* read and parsed.
LoadRecents(t) ==
    /\ t.pc = "lp_recents"
    /\ Apply(t, RestoreAdvance([t EXCEPT !.session = localStorage,
                                          !.queue = localStorage.openFiles, !.docs = <<>>]))
    /\ UNCHANGED <<fs, hasMove, nextId, crash, rootDirHandle, projectFiles,
                   isRecycleBinActive, autoSaveTimer, autoRenameTimer, toast, docSeq, edits,
                   external, localStorage, permission>>
    /\ recentStore' = TRUE

RestoreResolved_Abort(t) ==
    /\ t.pc = "rw_resolved"
    /\ Apply(t, IF t.found = NoHandle
                THEN RestoreThrow(t)
                ELSE RestoreGoOn([t EXCEPT !.pc = IF isImageFile(Last(t.found))
                                                  THEN "rw_text" ELSE "rw_file",
                                           !.file = NoFile]))
    /\ UNCHANGED <<fs, hasMove, nextId, crash, rootDirHandle, projectFiles,
                   isRecycleBinActive, autoSaveTimer, autoRenameTimer, toast, docSeq, edits,
                   external, localStorage, recentStore, permission>>

\* Lines 1077-1078: getFileHandleFromPath has returned; an entry without a
\* handle is passed over.
RestoreResolved(t) ==
    /\ t.pc = "rw_resolved"
    /\ Apply(t, IF t.found = NoHandle
                THEN RestoreAdvance([t EXCEPT !.queue = Tail(t.queue)])
                ELSE RestoreGoOn([t EXCEPT !.pc = IF isImageFile(Last(t.found))
                                                  THEN "rw_text" ELSE "rw_file",
                                           !.file = NoFile]))
    /\ UNCHANGED <<fs, hasMove, nextId, crash, rootDirHandle, projectFiles,
                   isRecycleBinActive, autoSaveTimer, autoRenameTimer, toast, docSeq, edits,
                   external, localStorage, recentStore, permission>>

\* Lines 1080-1094: readFile (getFile, then text), then restoredFiles.push.
RestoreRead(t) ==
    /\ t.pc \in {"rw_file", "rw_text"}
    /\ LET saved == Head(t.queue)
           doc == [Doc(docSeq + 1, saved.name, saved.path, t.found,
                       IF isImageFile(Last(t.found)) THEN EmptyContent ELSE t.file.data,
                       FALSE)
                   EXCEPT !.cursorPosition = saved.cursorPosition]
       IN IF t.pc = "rw_file"
          THEN /\ Apply(t, IF IsFile(fs, t.found)
                           THEN RestoreGoOn([t EXCEPT !.pc = "rw_text",
                                                      !.file = getFile(fs, t.found)])
                           ELSE RestoreThrow(t))
               /\ UNCHANGED docSeq
          ELSE IF isImageFile(Last(t.found)) \/ Readable(fs, t.file)
          THEN /\ Apply(t, RestoreAdvance([t EXCEPT !.docs = Append(t.docs, doc),
                                                    !.queue = Tail(t.queue)]))
               /\ docSeq' = docSeq + 1
          ELSE /\ Apply(t, RestoreThrow(t))
               /\ UNCHANGED docSeq
    /\ UNCHANGED <<fs, hasMove, nextId, crash, rootDirHandle, projectFiles,
                   isRecycleBinActive, autoSaveTimer, autoRenameTimer, toast, edits,
                   external, localStorage, recentStore, permission>>

\* Lines 1117-1143: listFiles of the root, the README or else the first
\* markdown file of the listing, readFile, and that file as the one document.
RestoreFallback(t) ==
    /\ t.pc \in {"fb_list", "fb_file", "fb_text"}
    /\ LET items == listFiles(fs, RootPath)
           target == FallbackTarget(items)
           doc == Doc(docSeq + 1, Last(t.found), t.found, t.found, t.file.data, FALSE)
       IN IF t.pc = "fb_list"
          THEN /\ Apply(t, IF target = 0 THEN RestoreEnd(files, activeFileId)
                           ELSE RestoreGoOn([t EXCEPT !.pc = "fb_file",
                                                      !.found = <<items[target].name>>]))
               /\ UNCHANGED docSeq
          ELSE IF t.pc = "fb_file"
          THEN /\ Apply(t, IF IsFile(fs, t.found)
                           THEN RestoreGoOn([t EXCEPT !.pc = "fb_text",
                                                      !.file = getFile(fs, t.found)])
                           ELSE RestoreEnd(files, activeFileId))
               /\ UNCHANGED docSeq
          ELSE IF Readable(fs, t.file)
          THEN /\ Apply(t, RestoreEnd(<<doc>>, doc.id))
               /\ docSeq' = docSeq + 1
          ELSE /\ Apply(t, RestoreEnd(files, activeFileId))
               /\ UNCHANGED docSeq
    /\ UNCHANGED <<fs, hasMove, nextId, crash, rootDirHandle, projectFiles,
                   isRecycleBinActive, autoSaveTimer, autoRenameTimer, toast, edits,
                   external, localStorage, recentStore, permission>>

(***************************************************************************)
(* Other programs: the folder is the user's own, and a file of it may be   *)
(* removed or put there while the editor runs.                             *)
(***************************************************************************)
ExternalPaths == {<<"b.md">>}
ExternalContent == Text("x", 0)

ExternalDelete ==
    /\ external < MaxExternal
    /\ \E p \in DOMAIN fs : IsFile(fs, p) /\ fs' = RemoveTree(fs, p)
    /\ external' = external + 1
    /\ UNCHANGED <<hasMove, tasks, nextId, crash, rootDirHandle, files, activeFileId,
                   projectFiles, isRecycleBinActive, autoSaveTimer, autoRenameTimer, toast,
                   docSeq, edits, localStorage, isRestoring, recentStore, permission>>

ExternalCreate ==
    /\ external < MaxExternal
    /\ \E p \in ExternalPaths :
         /\ ~Exists(fs, p)
         /\ IsDir(fs, Parent(p))
         /\ fs' = Put(fs, p, FileEntry(ExternalContent))
    /\ external' = external + 1
    /\ UNCHANGED <<hasMove, tasks, nextId, crash, rootDirHandle, files, activeFileId,
                   projectFiles, isRecycleBinActive, autoSaveTimer, autoRenameTimer, toast,
                   docSeq, edits, localStorage, isRestoring, recentStore, permission>>

(***************************************************************************)
(* The App with a folder open.  loadProject (1145-1162) leaves the root    *)
(* set, the recycle bin closed, the documents restoreWorkspace (1063-1143) *)
(* found, the first of them active, and the listing of the root.           *)
(***************************************************************************)
Store(P) == [p \in P |-> Universe[p]]
Opened(id, s, p) == Doc(id, Last(p), p, p, s[p].data, FALSE)

Workspaces ==
    LET s1 == Put(Store({<<"a.md">>}), <<"b.md">>, FileEntry(Text("b", 2)))
        s2 == Store({<<"d">>, <<"d", "a.md">>})
        s3 == Store({<<"a.md">>, <<"d">>, <<"d", "a.md">>})
    IN {[fs |-> s1, files |-> <<Opened(1, s1, <<"a.md">>)>>],
        [fs |-> s2, files |-> <<>>],
        [fs |-> s3, files |-> <<Opened(1, s3, <<"a.md">>), Opened(2, s3, <<"d", "a.md">>)>>]}

Loaded(w) ==
    /\ fs = w.fs
    /\ files = w.files
    /\ activeFileId = IF w.files = <<>> THEN NoId ELSE w.files[1].id
    /\ docSeq = Len(w.files)
    /\ projectFiles = SelectSeq(listFiles(w.fs, RootPath), Visible)
    /\ hasMove \in BOOLEAN
    /\ tasks = {}
    /\ nextId = 0
    /\ crash = NoCrash
    /\ rootDirHandle = TRUE
    /\ isRecycleBinActive = FALSE
    /\ autoSaveTimer = NoTimer
    /\ autoRenameTimer = NoTimer
    /\ toast = ""
    /\ edits = 0
    /\ external = 0
    /\ localStorage = NoSession
    /\ isRestoring = FALSE
    /\ recentStore = TRUE
    /\ permission = "granted"

AppInit == \E w \in Workspaces : Loaded(w)

\* The awaits of the calls in flight, by the function they belong to.
FileRenameSteps ==
    \/ \E t \in tasks : RenameGetHandle(t)
    \/ \E t \in tasks : RenameNativeMove(t)
    \/ \E t \in tasks : TransferGetSource(t)
    \/ \E t \in tasks : TransferGetFile(t)
    \/ \E t \in tasks : TransferGetTarget(t)
    \/ \E t \in tasks : TransferCreateWritable(t)
    \/ \E t \in tasks : TransferWrite(t)
    \/ \E t \in tasks : TransferClose(t)
    \/ \E t \in tasks : MoveRemoveSource(t)

DirRenameSteps ==
    \/ \E t \in tasks : MoveDirGetSource(t)
    \/ \E t \in tasks : MoveDirGetTarget(t)
    \/ \E t \in tasks : MoveDirRemoveSource(t)
    \/ \E t \in tasks : CopyNext(t)

ConfirmRenameSteps ==
    \/ \E t \in tasks : ConfirmRenameHandle(t)
    \/ \E t \in tasks : ConfirmRenameResolve(t)
    \/ \E t \in tasks : ConfirmRenameRenamed(t)
    \/ \E t \in tasks : ConfirmRenameCatch(t)

ExecuteRenameSteps ==
    \/ \E t \in tasks : ExecuteRenameWalk(t)
    \/ \E t \in tasks : ExecuteRenameHandle(t)
    \/ \E t \in tasks : ExecuteRenameCatch(t)

SaveFileSteps ==
    \/ \E t \in tasks : SaveCreateWritable(t)
    \/ \E t \in tasks : SaveWrite(t)
    \/ \E t \in tasks : SaveClose(t)

SelectSteps ==
    \/ \E t \in tasks : SelectSame(t)
    \/ \E t \in tasks : SelectResolve(t)
    \/ \E t \in tasks : SelectGetFile(t)
    \/ \E t \in tasks : SelectText(t)

(***************************************************************************)
(* Renames through the dialog, with no save and no other program at work.  *)
(***************************************************************************)
RenameNext ==
    \/ HandleProjectFileSelect
    \/ HandleLinkClick
    \/ HandleTabClick
    \/ ConfirmRename
    \/ SelectSteps
    \/ FileRenameSteps
    \/ DirRenameSteps
    \/ ConfirmRenameSteps
    \/ \E t \in tasks : RefreshList(t)

SpecRename == AppInit /\ [][RenameNext]_vars

(***************************************************************************)
(* Edits of an open file, with the timeouts they arm and the manual save.  *)
(***************************************************************************)
EditNext ==
    \/ HandleTabClick
    \/ HandleContentChange
    \/ HandleSave
    \/ AutoSaveFire
    \/ AutoRenameFire
    \/ SaveFileSteps
    \/ FileRenameSteps
    \/ ExecuteRenameSteps
    \/ \E t \in tasks : HandleSaveSaved(t)
    \/ \E t \in tasks : HandleSaveCatch(t)
    \/ \E t \in tasks : AutoSaveSaved(t)
    \/ \E t \in tasks : AutoSaveCatch(t)
    \/ \E t \in tasks : RefreshList(t)

SpecEdit == AppInit /\ [][EditNext]_vars

(***************************************************************************)
(* Manual saves in a folder that other programs change as well.            *)
(***************************************************************************)
SaveNext ==
    \/ HandleProjectFileSelect
    \/ HandleLinkClick
    \/ HandleTabClick
    \/ HandleSave
    \/ ConfirmRename
    \/ ExternalDelete
    \/ ExternalCreate
    \/ SelectSteps
    \/ SaveFileSteps
    \/ FileRenameSteps
    \/ DirRenameSteps
    \/ ConfirmRenameSteps
    \/ \E t \in tasks : ResolveStep(t)
    \/ \E t \in tasks : HandleSaveRecovered(t)
    \/ \E t \in tasks : HandleSaveSaved(t)
    \/ \E t \in tasks : HandleSaveCatch(t)
    \/ \E t \in tasks : HandleSaveCreate(t)
    \/ \E t \in tasks : HandleSaveResolve(t)
    \/ \E t \in tasks : RefreshList(t)

SpecSave == AppInit /\ [][SaveNext]_vars

(***************************************************************************)
(* The recycle bin: deletes in either view, restores, and the toggle.      *)
(* moveEntry never asks whether the host has move(), so one host is taken. *)
(***************************************************************************)
MoveSteps ==
    \/ \E t \in tasks : TransferGetSource(t)
    \/ \E t \in tasks : TransferGetFile(t)
    \/ \E t \in tasks : TransferGetTarget(t)
    \/ \E t \in tasks : TransferCreateWritable(t)
    \/ \E t \in tasks : TransferWrite(t)
    \/ \E t \in tasks : TransferClose(t)
    \/ \E t \in tasks : MoveRemoveSource(t)
    \/ DirRenameSteps

TrashNext ==
    \/ ToggleRecycleBin
    \/ ConfirmDelete
    \/ HandleRestoreFile
    \/ \E t \in tasks : ConfirmDeleteTrash(t)
    \/ \E t \in tasks : ConfirmDeleteRemove(t)
    \/ \E t \in tasks : ConfirmDeleteDone(t)
    \/ \E t \in tasks : RestoreProbe(t)
    \/ \E t \in tasks : RestoreCatch(t)
    \/ MoveSteps
    \/ \E t \in tasks : RefreshList(t)
    \/ \E t \in tasks : RefreshTrash(t)

TrashInit == AppInit /\ hasMove

SpecTrash == TrashInit /\ [][TrashNext]_vars

(***************************************************************************)
(* getFileHandleFromPath (1046-1061) called twice in a row with the same   *)
(* path, as a save that finds no handle and the next save do (1283), on a  *)
(* folder other programs may change meanwhile.                             *)
(***************************************************************************)
ResolvePaths == {<<"a.md">>, <<"c.md">>, <<"d">>, <<"d", "a.md">>, <<"d", "d">>}

ResolveTwice ==
    /\ nextId < MaxOps
    /\ \E p \in ResolvePaths :
         tasks' = tasks \cup
            {EnterResolve([Handler("getFileHandleFromPath") EXCEPT
                              !.docPath = p, !.pre = fs, !.stamp = external],
                          p, "gr_first")}
    /\ nextId' = nextId + 1
    /\ UNCHANGED <<fs, hasMove, crash, app>>

\* The first call has returned (handle); the second is made.
ResolveAgain(t) ==
    /\ t.pc = "gr_first"
    /\ tasks' = Replace(t, EnterResolve([t EXCEPT !.handle = t.found], t.docPath, "gr_second"))
    /\ UNCHANGED <<fs, hasMove, nextId, crash, app>>

ResolveInit ==
    /\ fs \in {s \in InitStores : ~Exists(s, <<TRASH_DIR_NAME>>)}
    /\ hasMove = TRUE
    /\ tasks = {}
    /\ nextId = 0
    /\ crash = NoCrash
    /\ NoWorkspace
    /\ localStorage = NoSession

ResolveNext ==
    \/ ResolveTwice
    \/ ExternalDelete
    \/ ExternalCreate
    \/ \E t \in tasks : ResolveStep(t)
    \/ \E t \in tasks : ResolveAgain(t)

SpecResolve == ResolveInit /\ [][ResolveNext]_vars

(***************************************************************************)
(* fileSystem.listFiles (172-183) step by step: the entries as the         *)
(* iterator of the directory hands them out, in an order the platform      *)
(* chooses, then Array.prototype.sort, which is stable, with the           *)
(* comparator of lines 179-182.                                            *)
(***************************************************************************)
\* The characters of a name.
Letters(n) ==
    CASE n = "A" -> <<"A">>
      [] n = "a.md" -> <<"a", ".", "m", "d">>
      [] n = "b.md" -> <<"b", ".", "m", "d">>
      [] n = "B.md" -> <<"B", ".", "m", "d">>
      [] n = "c.md" -> <<"c", ".", "m", "d">>
      [] n = "d" -> <<"d">>
      [] n = TRASH_DIR_NAME -> <<".", "t", "r", "a", "s", "h">>
      [] n = "Readme.md" -> <<"R", "e", "a", "d", "m", "e", ".", "m", "d">>
      [] n = "Untitled-1.md" ->
           <<"U", "n", "t", "i", "t", "l", "e", "d", "-", "1", ".", "m", "d">>
      [] n = "Untitled-2.md" ->
           <<"U", "n", "t", "i", "t", "l", "e", "d", "-", "2", ".", "m", "d">>

\* String.prototype.localeCompare with the default collation: punctuation
\* before digits before letters, letters compared without their case first,
\* and a lower-case letter before its upper-case one where nothing else
\* differs.
Alphabet ==
    <<"-", ".", "1", "2", "a", "b", "c", "d", "e", "h", "i", "l", "m", "n", "r", "s", "t", "u">>
Upper == {"A", "B", "R", "U"}
Lower(c) == CASE c = "A" -> "a" [] c = "B" -> "b" [] c = "R" -> "r" [] c = "U" -> "u"
              [] OTHER -> c
Primary(n) ==
    [i \in 1..Len(Letters(n)) |->
        CHOOSE k \in 1..Len(Alphabet) : Alphabet[k] = Lower(Letters(n)[i])]
Tertiary(n) == [i \in 1..Len(Letters(n)) |-> IF Letters(n)[i] \in Upper THEN 1 ELSE 0]

CompareKeys(x, y) ==
    LET differ == {i \in 1..Len(x) : i <= Len(y) /\ x[i] # y[i]}
        first == CHOOSE i \in differ : \A j \in differ : i <= j
    IN IF differ # {} THEN (IF x[first] < y[first] THEN -1 ELSE 1)
       ELSE IF Len(x) < Len(y) THEN -1
       ELSE IF Len(x) > Len(y) THEN 1
       ELSE 0

localeCompare(a, b) ==
    IF CompareKeys(Primary(a), Primary(b)) # 0 THEN CompareKeys(Primary(a), Primary(b))
    ELSE CompareKeys(Tertiary(a), Tertiary(b))

\* Lines 179-182.
CompareEntries_FilesFirst(a, b) ==
    IF a.kind = b.kind THEN localeCompare(a.name, b.name)
    ELSE IF a.kind = "directory" THEN 1 ELSE -1

CompareEntries(a, b) ==
    IF a.kind = b.kind THEN localeCompare(a.name, b.name)
    ELSE IF a.kind = "directory" THEN -1 ELSE 1

\* A stable sort: each entry goes behind those that do not compare greater.
RECURSIVE InsertEntry(_, _)
InsertEntry(sorted, e) ==
    IF sorted = <<>> THEN <<e>>
    ELSE IF CompareEntries(e, Head(sorted)) < 0 THEN <<e>> \o sorted
    ELSE <<Head(sorted)>> \o InsertEntry(Tail(sorted), e)

RECURSIVE SortEntries(_)
SortEntries(entries) ==
    IF entries = <<>> THEN <<>>
    ELSE InsertEntry(SortEntries(SubSeq(entries, 1, Len(entries) - 1)), entries[Len(entries)])

\* A call of listFiles(dirHandle).
ListFiles ==
    /\ nextId < MaxOps
    /\ tasks' = tasks \cup {[Handler("listFiles") EXCEPT !.pc = "lf_values", !.dir = RootPath]}
    /\ nextId' = nextId + 1
    /\ UNCHANGED <<fs, hasMove, crash, app>>

\* Lines 175-177: the iterator hands out one more entry.
ListFilesPush(t) ==
    /\ t.pc = "lf_values"
    /\ \E n \in ChildNames(fs, t.dir) :
         /\ \A i \in 1..Len(t.queue) : t.queue[i].name # n
         /\ tasks' = Replace(t, [t EXCEPT !.queue = Append(t.queue, Entry(fs, t.dir, n))])
    /\ UNCHANGED <<fs, hasMove, nextId, crash, app>>

\* Lines 178-182: the iterator is done; the sorted entries are returned (docs).
ListFilesSort(t) ==
    /\ t.pc = "lf_values"
    /\ Len(t.queue) = Cardinality(ChildNames(fs, t.dir))
    /\ tasks' = Replace(t, [t EXCEPT !.pc = "lf_done", !.docs = SortEntries(t.queue)])
    /\ UNCHANGED <<fs, hasMove, nextId, crash, app>>

\* The directories listed: every choice of entries among four names, each a
\* file or a directory.
ListNames == {"A", "a.md", "b.md", "B.md"}
ListStores ==
    UNION {[{<<n>> : n \in N} -> {FileEntry(EmptyContent), DirEntry}] : N \in SUBSET ListNames}

ListInit ==
    /\ fs \in ListStores
    /\ hasMove = TRUE
    /\ tasks = {}
    /\ nextId = 0
    /\ crash = NoCrash
    /\ NoWorkspace
    /\ localStorage = NoSession

ListNext ==
    \/ ListFiles
    \/ \E t \in tasks : ListFilesPush(t)
    \/ \E t \in tasks : ListFilesSort(t)

SpecList == ListInit /\ [][ListNext]_vars

(***************************************************************************)
(* Sessions: the App with no folder open, a folder to open and the item    *)
(* an earlier run left under its key, if any: up to MaxSaved entries, each *)
(* with its own cursor, and the path of one of them, or none, as the       *)
(* active one.                                                             *)
(***************************************************************************)
MaxSaved == 2

SessionPaths == {<<"a.md">>, <<"Readme.md">>, <<"d", "a.md">>}

SessionStores ==
    LET all == [p \in SessionPaths \cup {<<"d">>} |->
                  CASE p = <<"a.md">> -> FileEntry(Text("a", 1))
                    [] p = <<"Readme.md">> -> FileEntry(Text("r", 2))
                    [] p = <<"d", "a.md">> -> FileEntry(Text("a", 3))
                    [] OTHER -> DirEntry]
    IN {[p \in P |-> all[p]] : P \in {Q \in SUBSET DOMAIN all : Closed(Q)}}

Sessions ==
    LET Entry1(p, i) == [name |-> Last(p), path |-> p, cursorPosition |-> Cursor(i)]
        lists == UNION {[1..n -> SessionPaths] : n \in 0..MaxSaved}
    IN {NoSession} \cup
       {[openFiles |-> [i \in DOMAIN l |-> Entry1(l[i], i)], activeFilePath |-> a, saved |-> TRUE] :
            l \in lists, a \in {NoPath} \cup SessionPaths}

SessionInit ==
    /\ fs \in SessionStores
    /\ hasMove = TRUE
    /\ tasks = {}
    /\ nextId = 0
    /\ crash = NoCrash
    /\ NoWorkspace
    /\ \E v \in Sessions :
         /\ v.activeFilePath \in {NoPath} \cup {v.openFiles[i].path : i \in 1..Len(v.openFiles)}
         /\ localStorage = v

\* Opening the folder and closing it.
RestoreSteps(t) ==
    \/ CloseFolderRecents(t)
    \/ LoadRecents(t)
    \/ ResolveStep(t)
    \/ RestoreResolved(t)
    \/ RestoreRead(t)
    \/ RestoreFallback(t)
    \/ RefreshList(t)

RestoreNext ==
    \/ LoadProject
    \/ HandleCloseFolder
    \/ ToggleRecycleBin
    \/ \E t \in tasks : RestoreSteps(t)
    \/ \E t \in tasks : RefreshTrash(t)

SpecRestore == SessionInit /\ [][RestoreNext]_vars

\* The same with the user at work in the documents meanwhile, and the
\* snapshots taken, for the folders that have Readme.md and d/a.md.
SnapshotInit == SessionInit /\ {<<"Readme.md">>, <<"d", "a.md">>} \subseteq DOMAIN fs

SessionNext ==
    \/ LoadProject
    \/ HandleCloseFolder
    \/ SaveWorkspaceState
    \/ HandleCursorChange
    \/ HandleLinkClick
    \/ HandleTabClick
    \/ \E t \in tasks : RestoreSteps(t)
    \/ \E t \in tasks : SelectResolve(t)
    \/ \E t \in tasks : SelectGetFile(t)
    \/ \E t \in tasks : SelectText(t)

SpecSession == SnapshotInit /\ [][SessionNext]_vars

(***************************************************************************)
(* The creation of files: handleCreateFile and the first save of a         *)
(* document that has no file, in the folders above and in one that holds   *)
(* a file handleCreateFile made earlier, since written to and closed.      *)
(***************************************************************************)
CreateInit ==
    \E w \in Workspaces \cup
              {[fs |-> Put(Store({<<"d">>}), <<"Untitled-1.md">>, FileEntry(Text("u", 5))),
                files |-> <<>>]} : Loaded(w)

CreateNext ==
    \/ HandleCreateFile
    \/ HandleLinkClick
    \/ HandleTabClick
    \/ HandleSave
    \/ \E t \in tasks : CreateGetHandle(t)
    \/ \E t \in tasks : CreateRefresh(t)
    \/ \E t \in tasks : CreateResolve(t)
    \/ SaveFileSteps
    \/ \E t \in tasks : HandleSaveSaved(t)
    \/ \E t \in tasks : HandleSaveCreate(t)
    \/ \E t \in tasks : HandleSaveResolve(t)
    \/ \E t \in tasks : RefreshList(t)

SpecCreate == CreateInit /\ [][CreateNext]_vars

(***************************************************************************)
(* Claims about renames of open files, checked under SpecRename.           *)
(***************************************************************************)
RenameOps == {"confirmRename", "executeRename"}
Identity(f) == <<f.name, f.path, f.handle>>

\* C5: a file rename changes the name, path or handle of no document other
\* than those bound to the path of the renamed file; a document bound to
\* another path, or to none, stays as it is.
C5_OthersUnchanged ==
    [][\A t \in tasks :
          (/\ t.op \in RenameOps
           /\ t.pc \in {"cr_handle", "cr_resolve", "er_handle"}
           /\ t \notin tasks')
          => \A i \in 1..Len(files) :
                files[i].path # SourceOf(t) => Identity(files'[i]) = Identity(files[i])]_vars

\* C6: a rename of a file to a name that another file of the directory bears
\* when the rename is asked for leaves both files with their content and
\* does not return as a rename that succeeded.
Collides(t) ==
    /\ t.op \in RenameOps
    /\ t.kind = "file"
    /\ IsFile(t.pre, SourceOf(t))
    /\ IsFile(t.pre, TargetOf(t))
C6_CollisionRejected ==
    \A t \in tasks :
        Collides(t) =>
            /\ t.pc \notin {"cr_handle", "cr_resolve", "er_handle"}
            /\ Holds(fs, SourceOf(t), t.pre[SourceOf(t)].data)
            /\ Holds(fs, TargetOf(t), t.pre[TargetOf(t)].data)

(***************************************************************************)
(* Claims about saves and the timeouts of an edit, checked under SpecEdit. *)
(***************************************************************************)
\* C7: no save armed by an edit of a document is in flight while a rename
\* armed by an edit of the same document is.
C7_SaveRenameSerialized ==
    \A s \in tasks, r \in tasks :
        ~(s.op = "autoSave" /\ r.op = "executeRename" /\ s.fileId = r.fileId)

\* C8: once the file of a document holds the content the document has, no
\* step puts other content into that file while the document keeps it: an
\* older save never replaces what a newer one wrote.
C8_LatestWins ==
    [][\A i \in 1..Len(files) :
          LET f == files[i] IN
          (/\ f.handle # NoHandle
           /\ Holds(fs, f.handle, f.content)
           /\ i <= Len(files')
           /\ files'[i].content = f.content
           /\ IsFile(fs', f.handle))
          => Holds(fs', f.handle, f.content)]_vars

(***************************************************************************)
(* Claims about the manual save, checked under SpecSave.                   *)
(***************************************************************************)
\* C9: a manual save of a document whose path names a file of the folder
\* writes through a handle that leads to a file: where the handle of the
\* document has gone stale, the save takes the one its path resolves to.
C9_FreshHandle ==
    \A t \in tasks :
        (/\ t.op = "handleSave"
         /\ t.pc = "sv_writable"
         /\ t.docPath # NoPath
         /\ IsFile(fs, t.docPath))
        => IsFile(fs, t.handle)

\* C10: when the path of a document resolves to no file, the manual save
\* shows that it failed, leaves the store as it is and leaves the document
\* as dirty as it was.
C10_StaleReference ==
    [][\A t \in tasks :
          (/\ t.op = "handleSave"
           /\ t.pc = "hs_recovered"
           /\ t.found = NoHandle
           /\ t \notin tasks')
          => /\ toast' = "Save failed"
             /\ fs' = fs
             /\ \A i \in 1..Len(files) :
                  files[i].id = t.fileId => files'[i].isDirty = files[i].isDirty]_vars

(***************************************************************************)
(* Claims about failures of the timers' work, checked under SpecEdit.      *)
(***************************************************************************)
AutoOps == {"autoSave", "executeRename"}

\* The task fails in this step (its call rejects and control passes to its
\* catch) or its catch runs and the task ends.
Fails(t) ==
    \/ t.pc = t.onErr /\ t \notin tasks'
    \/ t.pc # t.onErr /\ Throw(t) \in tasks' /\ t \notin tasks'

\* C11: a step in which the save or the rename started by a timer fails
\* leaves the dirty flag of every document as it was: a dirty document stays
\* dirty.
C11_FailureKeepsDirty ==
    [][\A t \in tasks :
          (t.op \in AutoOps /\ Fails(t))
          => /\ Len(files') = Len(files)
             /\ \A i \in 1..Len(files) : files'[i].isDirty = files[i].isDirty]_vars

\* The save of a timer has failed (the rename of the other timer took the
\* file from under it) and its document is dirty.
C11_Witness ==
    \E s \in tasks :
        /\ s.op = "autoSave" /\ s.pc = "as_catch"
        /\ s.fileId \in Ids(files) /\ Find(files, s.fileId).isDirty

(***************************************************************************)
(* Claims about the creation of files, checked under SpecCreate.           *)
(***************************************************************************)
\* The place a create in flight makes its file at.
CreateTarget(t) ==
    IF t.op = "handleCreateFile" THEN Append(t.targetDir, t.name) ELSE <<t.docName>>

\* C12: a create (handleCreateFile, or the first save of a document without
\* a file) whose target name was taken by a file when it was called leaves
\* that file with its content, and does not go on as a create that succeeded.
C12_CreateKeepsExisting ==
    \A t \in tasks :
        (/\ \/ t.op = "handleCreateFile"
            \/ t.op = "handleSave" /\ t.pre # NoStore
         /\ IsFile(t.pre, CreateTarget(t)))
        => /\ Holds(fs, CreateTarget(t), t.pre[CreateTarget(t)].data)
           /\ t.pc \notin {"cf_refresh", "cf_resolve", "hs_resolve"}

(***************************************************************************)
(* Claims about the recycle bin, checked under SpecTrash.                  *)
(***************************************************************************)
Trashed(n) == Append(TrashPath, n)

\* The handler ran with no other handler in flight, from its call to now.
Sequential(t) == t.alone /\ t.id = nextId

\* C13: a soft delete of a file of the root, run on its own, ends with the
\* file in the bin, its content as it was, and gone from the root; a restore
\* of a file of the bin, run on its own, ends with the file in the root, its
\* content as it was, and gone from the bin.  One after the other, they
\* leave the file in the root with the content it had and nothing of it in
\* the bin.
C13_DeleteRestoreRoundTrip ==
    \A t \in tasks :
        /\ (/\ t.op = "confirmDelete" /\ t.pc = "cd_moved" /\ Sequential(t)
             /\ t.sourceDir = RootPath /\ t.kind = "file"
             /\ IsFile(t.pre, <<t.name>>))
            => /\ Holds(fs, Trashed(t.name), t.pre[<<t.name>>].data)
               /\ ~Exists(fs, <<t.name>>)
        /\ (/\ t.op = "handleRestoreFile" /\ t.pc \in {"rf_trash", "rf_items"}
             /\ Sequential(t)
             /\ IsFile(t.pre, Trashed(t.name)))
            => /\ Holds(fs, <<t.name>>, t.pre[Trashed(t.name)].data)
               /\ ~Exists(fs, Trashed(t.name))

\* A restore run on its own has brought back to the root, with its content,
\* a file that a soft delete had taken from the root before.
C13_Witness ==
    \E t \in tasks :
        /\ t.op = "handleRestoreFile" /\ t.pc = "rf_trash" /\ Sequential(t)
        /\ t.name = "a.md"
        /\ ~Exists(t.pre, <<"a.md">>)
        /\ Holds(t.pre, Trashed("a.md"), Universe[<<"a.md">>].data)
        /\ Holds(fs, <<"a.md">>, Universe[<<"a.md">>].data)
        /\ ~Exists(fs, Trashed("a.md"))

(***************************************************************************)
(* Claims about the paths of the open documents, checked under SpecRename. *)
(***************************************************************************)
\* The handler ends in this step, and not in its catch.
Completes(t) ==
    /\ t.pc \notin {"cr_catch", "cd_catch"}
    /\ \A u \in tasks' : u.id # t.id \/ u.op # t.op

\* C14: when a rename or a delete of a file or of a directory has completed,
\* the path of every open document that has one leads to a file of the store.
C14_PathsResolve ==
    [][\A t \in tasks :
          (t.op \in {"confirmRename", "confirmDelete"} /\ Completes(t))
          => \A i \in 1..Len(files') :
                files'[i].path # NoPath => IsFile(fs', files'[i].path)]_vars

(***************************************************************************)
(* Claims about the restore of a session, checked under SpecRestore.       *)
(***************************************************************************)
\* The restore of loadProject t ends in this step with documents restored.
Restores(t) ==
    /\ t.op = "loadProject"
    /\ t.pc \in {"rw_text", "rw_resolved"}
    /\ \A u \in tasks' : u.id # t.id

SavedPaths(v) == [i \in 1..Len(v.openFiles) |-> v.openFiles[i].path]

Surviving(v) ==
    LET Exists1(e) == IsFile(fs, e.path)
    IN SelectSeq(v.openFiles, Exists1)

\* C16: a saved entry whose file is gone is passed over: the restore ends with
\* one document for each saved entry whose file exists, in the saved order and
\* with that entry's cursor, shows no message, and falls back to the listing
\* of the root only when no saved entry has its file.
C16_RestoreSkipsMissing ==
    [][\A t \in tasks :
          /\ Restores(t)
               => /\ Len(files') = Len(Surviving(t.session))
                  /\ \A i \in 1..Len(files') :
                        /\ files'[i].path = Surviving(t.session)[i].path
                        /\ files'[i].cursorPosition = Surviving(t.session)[i].cursorPosition
                        /\ files'[i].content = fs[files'[i].path].data
                  /\ toast' = toast
          /\ \A u \in tasks' :
                (t.op = "loadProject" /\ u.id = t.id /\ t.pc # "fb_list" /\ u.pc = "fb_list")
                => Surviving(u.session) = <<>>]_vars

C16_Witness ==
    /\ tasks = {}
    /\ SavedPaths(localStorage) = << <<"a.md">>, <<"d", "a.md">> >>
    /\ ~Exists(fs, <<"a.md">>)
    /\ Len(files) = 1
    /\ files[1].path = <<"d", "a.md">>
    /\ files[1].cursorPosition = Cursor(2)
    /\ activeFileId = files[1].id
    /\ toast = ""

\* The name the fallback is to open: the README of the root, or else the first
\* markdown file of the listing of the root, or else none.
Fallback ==
    LET IsReadmeFile(e) == e.kind = "file" /\ IsReadme(e.name)
        IsMarkdownFile(e) == e.kind = "file" /\ IsMarkdown(e.name)
        items == listFiles(fs, RootPath)
    IN IF SelectSeq(items, IsReadmeFile) # <<>> THEN SelectSeq(items, IsReadmeFile)[1].name
       ELSE IF SelectSeq(items, IsMarkdownFile) # <<>>
       THEN SelectSeq(items, IsMarkdownFile)[1].name
       ELSE NoName

\* C17: a restore that restored no document ends by opening the README of the
\* root, whatever the case of its name, or else the first markdown file of the
\* root in the order of listFiles, as the one document, not dirty and active;
\* with no markdown file at the root it opens nothing.
C17_Fallback ==
    [][\A t \in tasks :
          (t.op = "loadProject" /\ \A u \in tasks' : u.id # t.id)
          => \/ Restores(t) /\ Surviving(t.session) # <<>>
             \/ /\ t.pc = "fb_text"
                /\ Surviving(t.session) = <<>>
                /\ Fallback # NoName
                /\ Len(files') = 1
                /\ files'[1].name = Fallback
                /\ files'[1].path = <<Fallback>>
                /\ files'[1].handle = <<Fallback>>
                /\ files'[1].content = fs[<<Fallback>>].data
                /\ ~files'[1].isDirty
                /\ activeFileId' = files'[1].id
             \/ /\ t.pc = "fb_list"
                /\ Surviving(t.session) = <<>>
                /\ Fallback = NoName
                /\ files' = files]_vars

C17_Witness ==
    /\ tasks = {}
    /\ SavedPaths(localStorage) = << <<"d", "a.md">> >>
    /\ ~Exists(fs, <<"d", "a.md">>)
    /\ IsFile(fs, <<"a.md">>)
    /\ Len(files) = 1
    /\ files[1].path = <<"Readme.md">>
    /\ files[1].content = Text("r", 2)
    /\ ~files[1].isDirty
    /\ activeFileId = files[1].id

(***************************************************************************)
(* Claims about the saved session, checked under SpecSession.              *)
(***************************************************************************)
WithPath(fl) ==
    LET HasPath(f) == f.path # NoPath
    IN SelectSeq(fl, HasPath)

Closed1(root, fl, active, bin) == ~root /\ fl = <<>> /\ active = NoId /\ ~bin

\* C20: the step in which handleCloseFolder is called leaves no root, no
\* document, no active document and the recycle-bin view off, and so is the
\* App when the handler ends, if no other handler was in flight at the call.
C20_CloseFolder ==
    [][/\ \A u \in tasks' \ tasks :
            u.op = "handleCloseFolder"
            => Closed1(rootDirHandle', files', activeFileId', isRecycleBinActive')
       /\ \A t \in tasks \ tasks' :
            (t.op = "handleCloseFolder" /\ Sequential(t))
            => Closed1(rootDirHandle', files', activeFileId', isRecycleBinActive')]_vars

C20_Witness ==
    /\ docSeq = 2
    /\ \E t \in tasks : t.op = "handleCloseFolder" /\ t.recycle /\ Sequential(t)
    /\ Closed1(rootDirHandle, files, activeFileId, isRecycleBinActive)

(***************************************************************************)
(* Claims about listFiles, checked under SpecList.                         *)
(***************************************************************************)
Returned(t) == t.op = "listFiles" /\ t.pc = "lf_done"

\* C19: what listFiles returns holds every entry of the directory once, the
\* directories before the files, the names of one kind ascending; two calls
\* return the same sequence whatever order the entries were handed out in;
\* and b.md, directory A and a.md are returned as A, a.md, b.md.
C19_ListFilesSorted ==
    \A t \in tasks :
       Returned(t)
       => /\ Len(t.docs) = Cardinality(ChildNames(fs, t.dir))
          /\ {t.docs[i] : i \in 1..Len(t.docs)}
               = {Entry(fs, t.dir, n) : n \in ChildNames(fs, t.dir)}
          /\ \A i, j \in 1..Len(t.docs) :
                i < j => /\ t.docs[i].kind = "file" => t.docs[j].kind = "file"
                         /\ t.docs[i].kind = t.docs[j].kind
                              => localeCompare(t.docs[i].name, t.docs[j].name) < 0
          /\ \A u \in tasks : Returned(u) => u.docs = t.docs
          /\ (/\ DOMAIN fs = {<<"A">>, <<"a.md">>, <<"b.md">>}
              /\ \A p \in DOMAIN fs : fs[p].kind = "directory" <=> p = <<"A">>)
             => [i \in 1..3 |-> t.docs[i].name] = <<"A", "a.md", "b.md">>

C19_Witness ==
    /\ DOMAIN fs = {<<"A">>, <<"a.md">>, <<"b.md">>}
    /\ fs[<<"A">>].kind = "directory"
    /\ \E t, u \in tasks :
         /\ Returned(t) /\ Returned(u)
         /\ t.queue[1].name = "b.md" /\ t.queue[2].name = "A"
         /\ u.queue[1].name = "a.md"
         /\ t.docs[3].name = "b.md"

(***************************************************************************)
(* Claims about getFileHandleFromPath, checked under SpecResolve.          *)
(***************************************************************************)
Resolved(t) == t.op = "getFileHandleFromPath" /\ t.pc = "gr_second"

C22_IntoItselfRejected ==
    \A t \in tasks :
       (t.op = "moveEntry" /\ t.kind = "directory" /\ IsPrefix(SourceOf(t), t.targetDir))
       => fs = t.pre

(***************************************************************************)
(* Opening a folder: with the picker, and from the recent folders of the   *)
(* welcome screen.                                                         *)
(***************************************************************************)
Permissions == {"granted", "prompt", "denied"}

\* Lines 1145-1151, the part of loadProject before its first await, run by the
\* handler t that calls it; the change of the root starts a listing (line 890).
LoadProjectFrom(t) ==
    /\ isRestoring' = TRUE
    /\ rootDirHandle' = TRUE
    /\ isRecycleBinActive' = FALSE
    /\ files' = <<>>
    /\ activeFileId' = NoId
    /\ tasks' = Replace(t, [t EXCEPT !.op = "loadProject", !.root = TRUE, !.recycle = FALSE,
                                     !.pc = "lp_recents", !.pre = fs])
                   \cup {EnterRefresh([BlankTask EXCEPT !.op = "refresh", !.root = TRUE], "")}

\* handleOpenFolder, lines 1014-1016, up to the picker of line 159.
HandleOpenFolder ==
    /\ nextId < MaxOps
    /\ tasks' = tasks \cup {[Handler("handleOpenFolder") EXCEPT !.pc = "of_picker"]}
    /\ nextId' = nextId + 1
    /\ UNCHANGED <<fs, hasMove, crash, app>>

\* openDirectory, line 159: the user chooses the folder and grants readwrite.
PickerChosen(t) ==
    /\ t.pc = "of_picker"
    /\ permission' = "granted"
    /\ tasks' = Replace(t, [t EXCEPT !.pc = "of_recents"])
    /\ UNCHANGED <<fs, hasMove, nextId, crash, rootDirHandle, files, activeFileId, projectFiles,
                   isRecycleBinActive, autoSaveTimer, autoRenameTimer, toast, docSeq, edits,
                   external, localStorage, isRestoring, recentStore>>

\* The variant that tells the user of an abandoned picker.
PickerAbandoned_Notify(t) ==
    /\ t.pc = "of_picker"
    /\ tasks' = Replace(t, [t EXCEPT !.pc = "of_ignored"])
    /\ toast' = "Open failed"
    /\ UNCHANGED <<fs, hasMove, nextId, crash, rootDirHandle, files, activeFileId, projectFiles,
                   isRecycleBinActive, autoSaveTimer, autoRenameTimer, docSeq, edits,
                   external, localStorage, isRestoring, recentStore, permission>>

\* openDirectory, lines 159 and 166, and the catch of line 1018: the picker is
\* abandoned, or the browser has none; the rejection is ignored.
PickerAbandoned(t) ==
    /\ t.pc = "of_picker"
    /\ tasks' = Replace(t, [t EXCEPT !.pc = "of_ignored"])
    /\ UNCHANGED <<fs, hasMove, nextId, crash, app>>

\* openDirectory, lines 161-162, then line 1017: the folder is put in the
\* recent folders, and loadProject starts.
OpenDirectoryRecents(t) ==
    /\ t.pc = "of_recents"
    /\ recentStore' = TRUE
    /\ LoadProjectFrom(t)
    /\ UNCHANGED <<fs, hasMove, nextId, crash, projectFiles, autoSaveTimer, autoRenameTimer,
                   toast, docSeq, edits, external, localStorage, permission>>

\* handleOpenRecent, lines 1030-1034, from the welcome screen (lines 1602-1604,
\* 791 and 829), up to queryPermission.
HandleOpenRecent ==
    /\ nextId < MaxOps
    /\ ~rootDirHandle
    /\ recentStore
    /\ tasks' = tasks \cup {[Handler("handleOpenRecent") EXCEPT !.pc = "or_query"]}
    /\ nextId' = nextId + 1
    /\ UNCHANGED <<fs, hasMove, crash, app>>

\* The variant that loads the folder whatever the permission.
QueryPermission_Load(t) ==
    /\ t.pc = "or_query"
    /\ LoadProjectFrom(t)
    /\ UNCHANGED <<fs, hasMove, nextId, crash, projectFiles, autoSaveTimer,
                   autoRenameTimer, toast, docSeq, edits, external, localStorage,
                   recentStore, permission>>

\* Lines 1034-1037: queryPermission; granted, loadProject starts.
QueryPermission(t) ==
    /\ t.pc = "or_query"
    /\ IF permission = "granted"
       THEN /\ LoadProjectFrom(t)
            /\ UNCHANGED <<fs, hasMove, nextId, crash, projectFiles, autoSaveTimer,
                           autoRenameTimer, toast, docSeq, edits, external, localStorage,
                           recentStore, permission>>
       ELSE /\ tasks' = Replace(t, [t EXCEPT !.pc = "or_request"])
            /\ UNCHANGED <<fs, hasMove, nextId, crash, app>>

\* Lines 1039-1043: requestPermission asks the user when the permission is
\* "prompt"; granted, loadProject starts, and otherwise showToast is called.
RequestPermission(t) ==
    /\ t.pc = "or_request"
    /\ \E p \in IF permission = "prompt" THEN Permissions ELSE {permission} :
         /\ permission' = p
         /\ IF p = "granted"
            THEN /\ LoadProjectFrom(t)
                 /\ toast' = toast
            ELSE /\ tasks' = Replace(t, [t EXCEPT !.pc = "or_denied"])
                 /\ toast' = "Permission denied"
                 /\ UNCHANGED <<rootDirHandle, files, activeFileId, isRecycleBinActive,
                                isRestoring>>
    /\ UNCHANGED <<fs, hasMove, nextId, crash, projectFiles, autoSaveTimer, autoRenameTimer,
                   docSeq, edits, external, localStorage, recentStore>>

\* Lines 1602-1608: the Toast element is in the layout of an open folder, and
\* the welcome screen, shown while no folder is open, has none.
ToastRendered == IF rootDirHandle THEN toast ELSE ""

OpenInit ==
    /\ fs \in {f \in SessionStores : <<"Readme.md">> \in DOMAIN f}
    /\ hasMove = TRUE
    /\ tasks = {}
    /\ nextId = 0
    /\ crash = NoCrash
    /\ rootDirHandle = FALSE
    /\ files = <<>>
    /\ activeFileId = NoId
    /\ projectFiles = <<>>
    /\ isRecycleBinActive = FALSE
    /\ autoSaveTimer = NoTimer
    /\ autoRenameTimer = NoTimer
    /\ toast = ""
    /\ docSeq = 0
    /\ edits = 0
    /\ external = 0
    /\ isRestoring = FALSE
    /\ recentStore \in BOOLEAN
    /\ permission \in Permissions
    /\ localStorage = NoSession

OpenSteps(t) ==
    \/ PickerChosen(t)
    \/ PickerAbandoned(t)
    \/ OpenDirectoryRecents(t)
    \/ QueryPermission(t)
    \/ RequestPermission(t)

OpenNext ==
    \/ HandleOpenFolder
    \/ HandleOpenRecent
    \/ HandleCloseFolder
    \/ \E t \in tasks : OpenSteps(t)
    \/ \E t \in tasks : RestoreSteps(t)

SpecOpen == OpenInit /\ [][OpenNext]_vars

(***************************************************************************)
(* Claims about opening a folder, checked under SpecOpen.                  *)
(***************************************************************************)
\* C23: a folder of the recent folders is loaded only once its readwrite
\* permission is granted; when the permission is refused, the root, the
\* documents and the active document stay as they were, and the user is shown
\* the message "Permission denied".
C23_OpenRecentPermission ==
    [][\A t \in tasks : \A u \in tasks' :
          (t.op = "handleOpenRecent" /\ u.id = t.id)
          => /\ u.op = "loadProject" => permission' = "granted"
             /\ (u.pc = "or_denied" /\ t.pc # "or_denied")
                => /\ UNCHANGED <<rootDirHandle, files, activeFileId>>
                   /\ ToastRendered' = "Permission denied"]_vars

\* C24: an abandoned picker changes nothing: the root, the documents, the
\* active document and the recent folders stay as they were from the call of
\* handleOpenFolder to its end, and no message is shown.
C24_AbandonedPicker ==
    [][/\ \A u \in tasks' \ tasks :
            u.op = "handleOpenFolder"
            => UNCHANGED <<rootDirHandle, files, activeFileId, recentStore, toast>>
       /\ \A t \in tasks : \A u \in tasks' :
            (t.op = "handleOpenFolder" /\ u.id = t.id /\ t.pc = "of_picker"
               /\ u.pc = "of_ignored")
            => UNCHANGED <<rootDirHandle, files, activeFileId, recentStore, toast>>]_vars

C24_Witness ==
    /\ files # <<>>
    /\ rootDirHandle
    /\ toast = ""
    /\ \E t \in tasks : t.op = "handleOpenFolder" /\ t.pc = "of_ignored" /\ t.root

(***************************************************************************)
(* Claims about the timers of handleContentChange, checked under SpecEdit. *)
(***************************************************************************)
\* C25: a rename that the rename timer starts is the one the latest content of
\* its document asks for: the new name is the name derived from the title of
\* that content, and differs from the document's name; a timer armed for an
\* earlier title does not fire once the content derives the current name.
C25_RenameFromLatest ==
    [][\A u \in tasks' \ tasks :
          (u.op = "executeRename" /\ u.fileId \in Ids(files))
          => LET doc == Find(files, u.fileId)
             IN /\ u.newName = TitleName(doc.content.h1, doc.name)
                /\ u.newName # doc.name]_vars

(***************************************************************************)
(* The auto-save on its own: edits that keep the title, tab changes, the   *)
(* auto-save timer and the saves it starts, with no failing storage call.  *)
(* An armed timer fires, and a save in flight goes on, in the end.         *)
(***************************************************************************)
EditKeepingTitle == HandleContentChange /\ UNCHANGED autoRenameTimer

AutoSaveNext ==
    \/ HandleTabClick
    \/ EditKeepingTitle
    \/ AutoSaveFire
    \/ SaveFileSteps
    \/ \E t \in tasks : AutoSaveSaved(t)

SpecAutoSave ==
    /\ AppInit
    /\ [][AutoSaveNext]_vars
    /\ WF_vars(AutoSaveFire)
    /\ WF_vars(SaveFileSteps)
    /\ WF_vars(\E t \in tasks : AutoSaveSaved(t))

Unsaved(id) ==
    /\ id \in Ids(files)
    /\ Find(files, id).isDirty
    /\ Find(files, id).handle # NoHandle

\* C26: the auto-save is per document: a document with a file handle that an
\* edit made dirty is in the end saved and clean again, also when the user
\* goes to another document and edits it before the timer fires.
C26_AutoSavePerDocument == \A id \in 1..MaxDocs : Unsaved(id) ~> ~Unsaved(id)

(***************************************************************************)
(* Claims about the move of a directory, checked under SpecOps.            *)
(***************************************************************************)
Below(s, p) == DOMAIN Subtree(s, p) \cup {<<>>}

\* C27: once moveEntry(src, d, dst, 'directory') has returned, the target
\* holds every file that was below src/d at the call, at the same place below
\* it and with the same content, and every directory, the empty ones too, and
\* src/d is gone; as long as the call has not returned, also where it stopped
\* part-way, all of src/d is still in place.
C27_DirectoryMove ==
    \A t \in Calls :
       (t.op = "moveEntry" /\ t.kind = "directory" /\ IsDir(t.pre, SourceOf(t))
          /\ (t = crash => ~crash.retry))
       => IF t.pc = "returned"
          THEN /\ \A r \in Below(t.pre, SourceOf(t)) :
                    /\ Exists(fs, TargetOf(t) \o r)
                    /\ fs[TargetOf(t) \o r] = t.pre[SourceOf(t) \o r]
               /\ ~Exists(fs, SourceOf(t))
          ELSE \A r \in Below(t.pre, SourceOf(t)) :
                    /\ Exists(fs, SourceOf(t) \o r)
                    /\ fs[SourceOf(t) \o r] = t.pre[SourceOf(t) \o r]

C27_Witness ==
    \E t \in tasks :
       /\ t.op = "moveEntry" /\ t.kind = "directory" /\ t.pc = "returned"
       /\ IsFile(t.pre, SourceOf(t) \o <<"a.md">>)
       /\ IsDir(t.pre, SourceOf(t) \o <<"d">>)
       /\ t.newName # NoName

C27_WitnessStopped ==
    /\ crash.op = "moveEntry" /\ crash.kind = "directory" /\ ~crash.retry
    /\ IsFile(fs, TargetOf(crash) \o <<"a.md">>)
    /\ ~Exists(fs, TargetOf(crash) \o <<"d">>)
    /\ IsDir(crash.pre, SourceOf(crash) \o <<"d">>)

(***************************************************************************)
(* Claims about the first save of a document without a file, checked under *)
(* SpecCreate.                                                             *)
(***************************************************************************)
\* The step of the handler t that takes it from the place pc to another.
Leaves(t, pc) == t.pc = pc /\ \A u \in tasks' : u.id = t.id => u.pc # pc

\* C28: handleSave on a document without path and handle, a root being open,
\* creates the file of the document's name at the root with the document's
\* content; the document then has the path and the handle of that file and is
\* clean; the listing is read afresh after that and shows the file.
C28_SaveVirtual ==
    [][\A t \in tasks :
          (t.op = "handleSave" /\ t.docPath = NoPath /\ t.fileId \in Ids(files))
          => /\ Leaves(t, "hs_resolve")
                => /\ Holds(fs, <<t.docName>>, t.content)
                   /\ Find(files', t.fileId).path = <<t.docName>>
                   /\ Find(files', t.fileId).handle = <<t.docName>>
                   /\ ~Find(files', t.fileId).isDirty
                   /\ projectFiles' = projectFiles
             /\ Leaves(t, "rf_list")
                => /\ Find(files, t.fileId).path = <<t.docName>>
                   /\ projectFiles' = SelectSeq(listFiles(fs, RootPath), Visible)
                   /\ \E i \in 1..Len(projectFiles') : projectFiles'[i].name = t.docName]_vars

C28_Witness ==
    /\ \E i \in 1..Len(files) :
         /\ files[i].name = "a.md"
         /\ files[i].path = <<"a.md">>
         /\ files[i].handle = <<"a.md">>
         /\ ~files[i].isDirty
         /\ Holds(fs, <<"a.md">>, files[i].content)
         /\ files[i].content # Universe[<<"a.md">>].data
    /\ \E i \in 1..Len(projectFiles) : projectFiles[i].name = "a.md"
    /\ toast = "Saved to folder"

(***************************************************************************)
(* Documents without a file and the automatic rename: a link to a page     *)
(* with no file makes such a document, edits arm the rename timer.         *)
(***************************************************************************)
VirtualWorkspaces ==
    LET readme == FileEntry(Text("r", 2))
        s1 == Put(Store({<<"d">>, <<"d", "a.md">>}), <<"Readme.md">>, readme)
        s2 == Put(Store({<<"a.md">>}), <<"Readme.md">>, readme)
        s3 == Store({<<"a.md">>, <<"d">>, <<"d", "a.md">>})
    IN {[fs |-> s1, files |-> <<Opened(1, s1, <<"Readme.md">>)>>],
        [fs |-> s2, files |-> <<Opened(1, s2, <<"Readme.md">>)>>],
        [fs |-> s3, files |-> <<Opened(1, s3, <<"d", "a.md">>)>>]}

VirtualInit == \E w \in VirtualWorkspaces : Loaded(w)

VirtualNext ==
    \/ ToggleRecycleBin
    \/ HandleLinkClick
    \/ HandleContentChange
    \/ AutoRenameFire
    \/ FileRenameSteps
    \/ ExecuteRenameSteps
    \/ \E t \in tasks : RefreshList(t)
    \/ \E t \in tasks : RefreshTrash(t)

SpecVirtual == VirtualInit /\ [][VirtualNext]_vars

\* C29: the automatic rename of a document without a path changes no entry of
\* the store, and the document keeps having no path and no handle.
C29_VirtualRenameKeepsStore ==
    [][\A t \in tasks \ tasks' :
          (t.op = "executeRename" /\ t.docPath = NoPath /\ t.fileId \in Ids(files))
          => /\ fs' = fs
             /\ Find(files', t.fileId).path = NoPath
             /\ Find(files', t.fileId).handle = NoHandle]_vars

(***************************************************************************)
(* Opening files from the tree, and nothing else.                          *)
(***************************************************************************)
SelectNext ==
    \/ HandleProjectFileSelect
    \/ HandleTabClick
    \/ SelectSteps

SpecSelect == AppInit /\ [][SelectNext]_vars

\* C30: no two open documents have the same path, also when two opens of one
\* entry of the tree overlap.
C30_OnePerPath ==
    \A i, j \in 1..Len(files) :
       (i # j /\ files[i].path # NoPath) => files[i].path # files[j].path

(***************************************************************************)
(* Claims about the two kinds of delete, checked under SpecTrash.          *)
(***************************************************************************)
\* Folders that hold trashed entries when they are opened.
BinWorkspaces ==
    LET s1 == Store({<<"a.md">>, <<TRASH_DIR_NAME>>, <<TRASH_DIR_NAME, "a.md">>})
        s2 == Store({<<"d">>, <<"d", "a.md">>, <<TRASH_DIR_NAME>>, <<TRASH_DIR_NAME, "a.md">>})
    IN {[fs |-> s1, files |-> <<>>],
        [fs |-> s2, files |-> <<Opened(1, s2, <<"d", "a.md">>)>>]}

\* The folder w open with the bin view on and its listing read.
LoadedBin(w) ==
    /\ fs = w.fs
    /\ files = w.files
    /\ activeFileId = IF w.files = <<>> THEN NoId ELSE w.files[1].id
    /\ docSeq = Len(w.files)
    /\ projectFiles = listFiles(w.fs, TrashPath)
    /\ hasMove = TRUE
    /\ tasks = {}
    /\ nextId = 0
    /\ crash = NoCrash
    /\ rootDirHandle = TRUE
    /\ isRecycleBinActive = TRUE
    /\ autoSaveTimer = NoTimer
    /\ autoRenameTimer = NoTimer
    /\ toast = ""
    /\ edits = 0
    /\ external = 0
    /\ localStorage = NoSession
    /\ isRestoring = FALSE
    /\ recentStore = TRUE
    /\ permission = "granted"

BinInit == \E w \in BinWorkspaces : LoadedBin(w)

SpecBin == BinInit /\ [][TrashNext]_vars

\* Sidebar 273-277 and 118-121: the entry of the tree that the delete dialog
\* was opened on.  The top level of the bin view shows the entries of .trash.
Shown(t) == IF t.recycle /\ t.sourceDir = RootPath THEN Trashed(t.name) ELSE SourceOf(t)

\* C31: a delete confirmed in normal view, run on its own, leaves the entry
\* with all below it in .trash under its name, .trash being made when it was
\* missing, each file with the content it had; a delete confirmed in the bin
\* view leaves neither the entry nor anything below it in the store, and
\* leaves all other entries as they were.
C31_SoftAndHardDelete ==
    \A t \in tasks :
       (t.op = "confirmDelete" /\ Sequential(t) /\ Exists(t.pre, Shown(t)))
       => /\ (~t.recycle /\ t.pc = "cd_moved")
             => /\ IsDir(fs, TrashPath)
                /\ \A r \in Below(t.pre, Shown(t)) :
                     /\ Exists(fs, Trashed(t.name) \o r)
                     /\ fs[Trashed(t.name) \o r] = t.pre[Shown(t) \o r]
                /\ ~Exists(fs, Shown(t))
          /\ (t.recycle /\ t.pc \in {"rf_trash", "rf_items"})
             => /\ \A r \in Below(t.pre, Shown(t)) : ~Exists(fs, Shown(t) \o r)
                /\ \A p \in DOMAIN t.pre :
                     ~IsPrefix(Shown(t), p) => Exists(fs, p) /\ fs[p] = t.pre[p]

(***************************************************************************)
(* Claims about the listing: deletes and restores asked for one at a time, *)
(* and changes of the view that wait for the listing of the change before. *)
(***************************************************************************)
ToggleSettled == ToggleRecycleBin /\ \A u \in tasks : u.op # "refresh"

\* A delete and a restore asked for when nothing is in flight.
DeleteSettled == ConfirmDelete /\ tasks = {}
RestoreSettled == HandleRestoreFile /\ tasks = {}

ListingNext ==
    \/ ToggleSettled
    \/ DeleteSettled
    \/ RestoreSettled
    \/ \E t \in tasks : ConfirmDeleteTrash(t)
    \/ \E t \in tasks : ConfirmDeleteRemove(t)
    \/ \E t \in tasks : ConfirmDeleteDone(t)
    \/ \E t \in tasks : RestoreProbe(t)
    \/ \E t \in tasks : RestoreCatch(t)
    \/ MoveSteps
    \/ \E t \in tasks : RefreshList(t)
    \/ \E t \in tasks : RefreshTrash(t)

SpecListing == TrashInit /\ [][ListingNext]_vars

\* refreshProjectFiles (974-991), by the view on display: what a listing read
\* now would be.
Displayed ==
    IF isRecycleBinActive
    THEN IF IsDir(fs, TrashPath) THEN listFiles(fs, TrashPath) ELSE <<>>
    ELSE SelectSeq(listFiles(fs, RootPath), Visible)

\* C32: when a delete or a restore ends and nothing else is in flight, the
\* listing of the App is the sorted content of the directory on display.
C32_ListingSettles ==
    [][\A t \in tasks :
          (t.op \in {"confirmDelete", "handleRestoreFile"} /\ tasks' = {})
          => projectFiles' = Displayed']_vars

(***************************************************************************)
(* Claims about a missing source, checked under SpecOps.                   *)
(***************************************************************************)
\* C33: moveEntry and renameEntry called on a name that the source directory
\* does not hold reject at their first storage call: they never return, never
\* get past that call, and the store stays as it was at the call.
C33_MissingSource ==
    \A t \in tasks :
       (t.op \in {"moveEntry", "renameEntry"} /\ ~Exists(t.pre, SourceOf(t)))
       => /\ fs = t.pre
          /\ t.pc \in {"x_source", "mvd_source", "rn_handle", "threw"}

C33_Witness ==
    \E t \in tasks :
       /\ t.op = "moveEntry" /\ t.kind = "directory" /\ t.pc = "threw" /\ ~t.retry
       /\ ~Exists(t.pre, SourceOf(t))
       /\ IsFile(fs, <<"a.md">>)

(***************************************************************************)
(* Tabs: closing from the tab bar and its context menu, next to opens from *)
(* the tree and deletes.  The effect of 909-914 runs after the render that *)
(* left documents without an active one and before any further event.      *)
(***************************************************************************)
\* handleCloseFile (1266-1273), called from a tab of the current render.
HandleCloseFile ==
    /\ \E id \in Ids(files) :
         LET keep(f) == f.id # id
             newFiles == SelectSeq(files, keep)
         IN /\ files' = newFiles
            /\ activeFileId' = IF activeFileId # id THEN activeFileId
                               ELSE IF newFiles = <<>> THEN NoId
                               ELSE newFiles[Len(newFiles)].id
    /\ UNCHANGED <<fs, hasMove, tasks, nextId, crash, rootDirHandle, projectFiles,
                   isRecycleBinActive, autoSaveTimer, autoRenameTimer, toast, docSeq, edits,
                   external, localStorage, isRestoring, recentStore, permission>>

\* handleTabAction (1003-1012), closeOthers and closeAll; close is handleCloseFile.
HandleTabAction ==
    /\ files # <<>>
    /\ \/ \E id \in Ids(files) :
            /\ files' = <<Find(files, id)>>
            /\ activeFileId' = id
       \/ /\ files' = <<>>
          /\ activeFileId' = NoId
    /\ UNCHANGED <<fs, hasMove, tasks, nextId, crash, rootDirHandle, projectFiles,
                   isRecycleBinActive, autoSaveTimer, autoRenameTimer, toast, docSeq, edits,
                   external, localStorage, isRestoring, recentStore, permission>>

NetPending == Len(files) > 0 /\ activeFileId = NoId

\* The effect of 909-914.
SafetyNet ==
    /\ NetPending
    /\ activeFileId' = files[1].id
    /\ UNCHANGED <<fs, hasMove, tasks, nextId, crash, rootDirHandle, files, projectFiles,
                   isRecycleBinActive, autoSaveTimer, autoRenameTimer, toast, docSeq, edits,
                   external, localStorage, isRestoring, recentStore, permission>>

TabsNext ==
    \/ SafetyNet
    \/ ~NetPending /\ HandleTabClick
    \/ ~NetPending /\ HandleCloseFile
    \/ ~NetPending /\ HandleTabAction
    \/ ~NetPending /\ HandleProjectFileSelect
    \/ ~NetPending /\ SelectSteps
    \/ ~NetPending /\ ConfirmDelete
    \/ ~NetPending /\ \E t \in tasks : ConfirmDeleteTrash(t)
    \/ ~NetPending /\ \E t \in tasks : ConfirmDeleteDone(t)
    \/ ~NetPending /\ MoveSteps

SpecTabs == TrashInit /\ [][TabsNext]_vars

\* C34: in every reachable state the active document id is null or the id of
\* a document of the list.
C34_ActiveIsOpen == activeFileId = NoId \/ activeFileId \in Ids(files)

(***************************************************************************)
(* Claims about a restore that outlives its folder, checked under          *)
(* SpecRestore.                                                            *)
(***************************************************************************)
\* C35: while no folder is open the list of documents is empty: a restore
\* started before the folder was closed adds no document afterwards.
C35_ClosedStaysEmpty == ~rootDirHandle => files = <<>>

(***************************************************************************)
(* Claims about the dirty flag, checked under SpecEdit, where no other     *)
(* program changes the folder.                                             *)
(***************************************************************************)
\* C36: a document with a handle that is not dirty, with no save or rename of
\* it in flight and no timeout of it armed, has its content in the file its
\* handle leads to.
C36_CleanIsStored ==
    \A i \in 1..Len(files) :
       LET f == files[i] IN
       (/\ f.handle # NoHandle
        /\ ~f.isDirty
        /\ \A t \in tasks : t.fileId # f.id
        /\ autoSaveTimer = NoTimer
        /\ autoRenameTimer = NoTimer)
       => Holds(fs, f.handle, f.content)

(***************************************************************************)
(* Claims about the document a delete closes, checked under SpecListing.   *)
(***************************************************************************)
\* C37: a step of confirmDelete that closes a document is the step of a delete
\* that succeeded, and the document's path is the path of the deleted entry.
C37_ClosesTheDeleted ==
    [][\A t \in tasks \ tasks' : \A i \in 1..Len(files) :
          (t.op = "confirmDelete" /\ files[i].id \notin Ids(files'))
          => /\ t.pc # "cd_catch"
             /\ files[i].path = SourceOf(t)]_vars

(***************************************************************************)
(* Claims about entries of one name on both sides of a delete or restore,  *)
(* checked under SpecBin.                                                  *)
(***************************************************************************)
Survives(s, d) == \E p \in DOMAIN s : IsFile(s, p) /\ s[p].data = d

\* C38: a soft delete or a restore of a file, run with nothing else in
\* flight, whose target directory holds a file of the same name with other
\* content leaves that content in some file of the store.
C38_NothingDestroyed ==
    \A t \in tasks :
       (/\ t.op \in {"confirmDelete", "handleRestoreFile"}
        /\ t.op = "confirmDelete" => ~t.recycle
        /\ Sequential(t)
        /\ IsFile(t.pre, SourceOf(t))
        /\ IsFile(t.pre, TargetOf(t))
        /\ t.pre[SourceOf(t)].data # t.pre[TargetOf(t)].data)
       => Survives(fs, t.pre[TargetOf(t)].data)

(***************************************************************************)
(* Claims about the snapshot and the loads, checked under SpecSession.     *)
(***************************************************************************)
\* C39: no step writes the session item while a loadProject is in flight.
C39_NoSnapshotWhileLoading ==
    [][localStorage' # localStorage => \A t \in tasks : t.op # "loadProject"]_vars

====
